---- MODULE Spec2Model ----
(***************************************************************************)
(* Model of the concurrent job-orchestration engine of the POI crawler:    *)
(* the queue pipeline of poi_crawler_simple.py (ChromeWorker threads, the  *)
(* process_results thread and the main thread of process_single_file),     *)
(* the driver pools, the checkpoint/resume logic, the result sinks and the *)
(* resource scheduler of the turbo/hybrid/parallel variants.               *)
(*                                                                         *)
(* Each component has its own specification (its own Init and Next); the   *)
(* variables of the other components keep their initial values.            *)
(***************************************************************************)
EXTENDS Integers, Sequences, FiniteSets, TLC

\* ------------------------------------------------------------------------
\* Bounds of the model
\* ------------------------------------------------------------------------
NumJobs == 2          \* rows of the input CSV of one batch
NumWorkers == 2       \* ChromeWorker threads
NumAddr == 2          \* distinct address strings of the input CSV
ScenarioJobs == 10    \* jobs of the retry scenario
ScenarioWorkers == 1  \* ChromeWorker threads of the retry scenario
TermWorkers == 1         \* workers of the runs checked for termination
MaxDrivers == 2       \* ChromeDriverPool.max_drivers
DriverMaxTasks == 2   \* ChromeDriverPool.driver_max_tasks
PoolWorkers == 3      \* TurboWorker threads using the pool
MaxHandles == 4       \* Chrome instances created over a run
ResumeJobs == 6       \* rows of the input CSV of a resumable run
ResumeBatchSize == 2  \* optimized_batch_size of ParallelPOICrawler.crawl_from_csv
SaveEvery == 2        \* results between two periodic _save_progress calls
MaxRuns == 3          \* runs of the program on the same input (1 + restarts)
NumKeys == 2          \* distinct (name, lat, lng) keys of the POIs of the pages
SinkResults == 2      \* results with POI data that arrive in one run
SinkBatchSize == 2    \* ResultBuffer.batch_size / the batch threshold of collect_results
SaveQueueSize == 1    \* AsyncDataSaveManager max_queue_size
QueueLowMark == 1     \* queue size under which a refused batch is dropped
SinkRuns == 2         \* runs of the program on the same output file
AdmJobs == 3          \* addresses of one async batch
AdmSemaphore == 2     \* AsyncCrawlWrapper.semaphore: min(25, max_workers)
CheckInterval == 1    \* DynamicResourceScheduler.check_interval, in clock ticks
WaitTicks == 2        \* the 30 s timeout of wait_for_scheduling, in clock ticks

None == -1            \* Python None for an address, a driver or a usage count

VARIABLES
    \* ---- poi_crawler_simple.py: SimplePOICrawler / ChromeWorker ----
    batch,            \* index -> [address, original_address] (load_addresses_from_csv)
    collab,           \* "any": the page decides; "scenario": primary invalid, retry has POIs
    task_queue,       \* SimplePOICrawler.task_queue
    tq_unfinished,    \* task_queue.unfinished_tasks (what join() waits for)
    retry_queue,      \* SimplePOICrawler.retry_queue
    result_queue,     \* SimplePOICrawler.result_queue
    wpc,              \* position of each ChromeWorker.run
    wtask,            \* the task a worker holds
    cpc,              \* position of process_results
    cres,             \* the result process_results is handling
    mpc,              \* position of the main thread in process_single_file/crawl_from_csv
    mnext,            \* next index of the put loop
    stop_event,       \* SimplePOICrawler.stop_event
    interrupt_flag,   \* SimplePOICrawler.interrupt_flag
    retry_cache,      \* SimplePOICrawler.retry_cache
    processed_indices,\* SimplePOICrawler.processed_indices
    processed_tasks,  \* SimplePOICrawler.processed_tasks
    total_tasks,      \* SimplePOICrawler.total_tasks
    \* ---- history of the run (observations, not program state) ----
    attempts,         \* index -> number of crawls made for the job
    terminal,         \* index -> number of terminal results consumed by process_results
    used,             \* index -> address of the job's terminal successful result with POIs
    retry_seen,       \* number of times retry_queue went from empty to non-empty
    bypass,           \* a main task was taken while a retry task was waiting
    cleanup           \* "none", or what was pending when _cleanup_progress removed the file

VARIABLES
    \* ---- parallel_poi_crawler_turbo.py: ChromeDriverPool and its callers ----
    pool,               \* ChromeDriverPool.pool (deque of idle drivers)
    total_created,      \* ChromeDriverPool.total_created
    driver_usage_count, \* ChromeDriverPool.driver_usage_count (None: no entry)
    current_driver,     \* TurboWorker.current_driver of each worker
    live,               \* Chrome instances created and not yet quit
    healthy,            \* live instances whose driver.window_handles answers
    released,           \* drivers that went through release_driver
    handles_made,       \* number of Chrome instances created so far
    last_release        \* history: the last call of release_driver and how it ended

VARIABLES
    \* ---- checkpoint and resume: poi_crawler_simple.py, parallel_poi_crawler.py ----
    rs_variant,           \* "simple" or "parallel": the crawler that runs
    progress_file,        \* the progress JSON on disk
    rs_pc,                \* position of the main thread of the run
    rs_loaded,            \* progress_data as returned by _load_progress in this run
    rs_pending,           \* simple: tasks put on the queue whose result is not consumed yet
    rs_processed_indices, \* simple: SimplePOICrawler.processed_indices
    rs_processed_tasks,   \* simple: SimplePOICrawler.processed_tasks
    batch_id,             \* parallel: batch_id of the loop of crawl_from_csv
    rs_dispatched,        \* history: the jobs handed to workers in this run
    rs_runs,              \* history: number of runs started
    rs_after_success      \* history: the run before this one completed the batch

VARIABLES
    \* ---- result sinks: ResultBuffer, AsyncDataSaveManager/DataSaveWorker, hybrid ----
    sk_variant,    \* "simple", "turbo" or "hybrid": the crawler that runs
    sk_pc,         \* position of the thread that collects the results
    sk_buffer,     \* ResultBuffer.buffer (simple), batch_data (turbo, hybrid)
    save_queue,    \* AsyncDataSaveManager.save_queue
    save_stop,     \* AsyncDataSaveManager.stop_event
    output_rows,   \* the rows of the output CSV, each by its (name, lat, lng)
    sk_left,       \* results with POI data still to arrive in this run
    sk_runs        \* history: number of runs started

VARIABLES
    \* ---- parallel_poi_crawler_turbo.py: DynamicResourceScheduler, AsyncCrawlWrapper ----
    is_paused,       \* DynamicResourceScheduler.is_paused
    feeding_event,   \* DynamicResourceScheduler.feeding_event is set
    since_check,     \* time.time() - last_check_time, capped at check_interval
    metrics,         \* what monitor_system_resources() would return now
    jpc,             \* position of each crawl_single_address_async of the batch
    waited,          \* time a job has spent in wait_for_scheduling, capped at the timeout
    adm_pc,          \* position of the batch loop of crawl_from_csv_async
    \* ---- history (observations, not program state) ----
    last_op,         \* what the last step was: "sampled", "force_pause", "force_resume", "other"
    was_paused,      \* is_paused before the last step
    paused_dispatch, \* a job was handed to the executor while is_paused was true
    early_dispatch   \* ... and it had waited less than the timeout

VARIABLES
    \* ---- the retry decision on a first result: process_results, TurboWorker.process_task ----
    rd_variant,      \* "none", or the crawler whose decision was taken: "simple", "turbo"
    rd_result,       \* the result the decision was taken on
    rd_decision      \* the result is crawled again with the original (secondary) address

VARIABLES
    \* ---- the progress file while _save_progress writes it ----
    ck_variant,      \* "none", "simple", "hybrid" (write in place) or "turbo" (temp file, rename)
    ck_file,         \* the progress file: NoFile or [value, len]
    ck_tmp,          \* the file progress_file + '.tmp' of _save_progress_async
    ck_pc,           \* position inside the save: "idle", "writing", "rename"
    ck_new,          \* the record the current (or last) save writes
    ck_old,          \* the progress file when the current save began
    ck_crashed       \* the process was killed; the files are what it left behind

VARIABLES
    \* ---- the writers of the output and progress files under Ctrl+C (simple) ----
    iw_flag,         \* SimplePOICrawler.interrupt_flag
    iw_results,      \* results still to come through result_queue
    iw_buffer,       \* len(ResultBuffer.buffer)
    iw_lock,         \* holder of ResultBuffer.lock: "free", "collector", "auto", "main"
    iw_processed,    \* SimplePOICrawler.processed_tasks
    iw_cpc,          \* position of process_results
    iw_apc,          \* position of ResultBuffer.auto_flush
    iw_mpc,          \* position of the main thread after the put loop
    iw_late          \* "none", or the file written while interrupt_flag was set

VARIABLES
    \* ---- parallel_poi_crawler_turbo.py: TurboWorker threads on the driver pool ----
    tw_queue,        \* TurboTaskScheduler.task_queue (indices of the tasks)
    tw_stop,         \* TurboTaskScheduler.stop_event
    tw_pc,           \* position of each TurboWorker.run
    tw_task,         \* the task a worker holds (None: no task)
    tw_tries,        \* retry_attempt of the get_driver loop
    tw_outcome,      \* index -> the kinds of result put on result_queue for the task
    \* ---- history of the run (observations, not program state) ----
    driver_jobs,     \* driver -> number of tasks crawled with it
    tw_errored,      \* drivers that had a driver/transport error during a task
    tw_failed,       \* tasks during which a driver had such an error
    tw_err           \* worker -> "none", "error" (a task of it failed), "recovered" (it
                     \* has processed a task since)

VARIABLES
    \* ---- AsyncDataSaveManager.stop against DataSaveWorker.save_worker_process ----
    st_queue,        \* AsyncDataSaveManager.save_queue: batches and the "STOP" marker
    st_stop_event,   \* AsyncDataSaveManager.stop_event is set
    st_wpc,          \* position of save_worker_process: "check", "get", "write", "exited"
    st_batch,        \* the batch save_worker_process took from the queue
    st_written,      \* the batches appended to the output file
    st_mpc,          \* position of crawl_from_csv_async: "run", "drain", "put_stop", ...
    st_next,         \* the next batch crawl_from_csv_async submits
    st_accepted      \* history: the batches save_batch_async put on the queue

VARIABLES
    \* ---- the windows of results watched for systemic failures (no_poi warnings) ----
    dg_variant,      \* "none", or the crawler that runs: "hybrid", "turbo", "parallel"
    dg_window,       \* the results of the current window, in the order they were handled
    dg_pc,           \* "collect": the window is filling; "closed": it is full and dealt with
    dg_reported      \* _generate_no_poi_warning ran (or the warning log was written) for it

VARIABLES
    \* ---- the feeder of the hybrid scheduler, its bounded queue and the workers ----
    fd_pending,      \* HybridTaskScheduler.pending_tasks (deque), the backlog
    fd_queue,        \* HybridTaskScheduler.task_queue (LifoQueue, the last element is the top)
    fd_fpc,          \* feed_tasks: "idle", "check" (the while test), "chunk" (the for loop), "done"
    fd_left,         \* iterations the for loop of feed_tasks still has to make
    fd_wtask,        \* per worker: the task HybridWorker.run holds, or NoFeedTask
    fd_wdriver,      \* per worker: current_driver is not None
    fd_results       \* per job: how many results were put on result_queue for it

VARIABLES
    \* ---- the inputs tried for one job (primary, secondary, fallback) ----
    ld_variant,      \* "none", or the crawler that handled the job: "parallel", "turbo", "simple"
    ld_ladder,       \* the inputs the job was loaded with, in their declared order
    ld_attempted,    \* the inputs the page was asked for, in the order of the calls
    ld_retryable,    \* the answer for the first input met the crawler's retry condition
    ld_outcome       \* "none", or the 'success' flag of the job's result: "success", "failure"

VARIABLES
    \* ---- writes to the output file that can fail ----
    wf_variant,      \* "none", or the crawler that runs: "simple", "hybrid"
    wf_buffer,       \* ResultBuffer.buffer (simple), batch_data of collect_results (hybrid)
    wf_store,        \* payloads appended to the output file
    wf_produced,     \* payloads handed to add_result / appended to batch_data so far
    wf_failures,     \* writes that raised so far
    wf_pc            \* "idle", "collect": results arrive, "done": the last write was attempted

VARIABLES
    \* ---- the two threads that write the progress file of the simple crawler ----
    pw_unfinished,   \* tasks of task_queue without task_done (what task_queue.join() waits for)
    pw_queue,        \* results waiting on result_queue
    pw_cpc,          \* process_results: "idle", "loop", "handle", "saving" (file open for writing)
    pw_mpc,          \* main thread: "idle", "join", "wait", "final_save", "final_saving", "cleanup", "done"
    pw_processed,    \* SimplePOICrawler.processed_tasks
    pw_file          \* the progress file: PwAbsent, PwTruncated, or the processed_tasks it records

VARIABLES
    \* ---- the output file over the runs of one batch ----
    of_variant,      \* "none", or the crawler that runs: "simple", "turbo"
    of_pc,           \* "idle", "init": the run sets up its output file, "run", "dead": the process was killed
    of_output,       \* the output file of the run (0: none yet)
    of_exists,       \* the output files that exist
    of_rows,         \* per output file: the payloads appended to it
    of_unreadable,   \* the output files pd.read_csv cannot parse (a torn last row)
    of_progress,     \* the progress file exists (it names of_output)
    of_next,         \* the next payload of the batch
    of_runs          \* runs started so far

VARIABLES
    \* ---- the output location of the simple crawler over the runs of one input ----
    ol_pc,           \* "idle", "setup", "buffer", "run", "dead": the process was killed, "done"
    ol_arg,          \* output_file, the argument of process_single_file (0: no call yet)
    ol_stored,       \* 'output_file' of the progress file (0: no progress file)
    ol_current,      \* self.current_output_file (0: None)
    ol_sink,         \* ResultBuffer.output_file (0: no buffer yet)
    ol_rows,         \* per output file: the payloads appended to it
    ol_next,         \* the next payload of the input
    ol_runs          \* runs started so far

VARIABLES
    \* ---- the driver of each ChromeWorker of the simple crawler over its restarts ----
    wr_pc,               \* per worker: "idle", "start", "loop", "exited"
    wr_driver,           \* per worker: self.driver (NoDriver: not set yet)
    wr_processed_count,  \* per worker: self.processed_count
    wr_quit,             \* the drivers whose quit() was called
    wr_made              \* drivers created so far

simpleVars == <<batch, collab, task_queue, tq_unfinished, retry_queue, result_queue,
                wpc, wtask, cpc, cres, mpc, mnext, stop_event, interrupt_flag,
                retry_cache, processed_indices, processed_tasks, total_tasks,
                attempts, terminal, used, retry_seen, bypass, cleanup>>

poolVars == <<pool, total_created, driver_usage_count, current_driver, live, healthy,
              released, handles_made, last_release>>

resumeVars == <<rs_variant, progress_file, rs_pc, rs_loaded, rs_pending,
                rs_processed_indices, rs_processed_tasks, batch_id, rs_dispatched,
                rs_runs,
               rs_after_success>>

sinkVars == <<sk_variant, sk_pc, sk_buffer, save_queue, save_stop, output_rows,
              sk_left, sk_runs>>

admVars == <<is_paused, feeding_event, since_check, metrics, jpc, waited, adm_pc,
             last_op, was_paused, paused_dispatch, early_dispatch>>

retryVars == <<rd_variant, rd_result, rd_decision>>

ckptVars == <<ck_variant, ck_file, ck_tmp, ck_pc, ck_new, ck_old, ck_crashed>>

interruptWriteVars == <<iw_flag, iw_results, iw_buffer, iw_lock, iw_processed, iw_cpc, iw_apc, iw_mpc, iw_late>>

turboVars == <<tw_queue, tw_stop, tw_pc, tw_task, tw_tries, tw_outcome, driver_jobs, tw_errored, tw_failed, tw_err>>

sinkStopVars == <<st_queue, st_stop_event, st_wpc, st_batch, st_written, st_mpc, st_next, st_accepted>>

diagVars == <<dg_variant, dg_window, dg_pc, dg_reported>>

feederVars == <<fd_pending, fd_queue, fd_fpc, fd_left, fd_wtask, fd_wdriver, fd_results>>

ladderVars == <<ld_variant, ld_ladder, ld_attempted, ld_retryable, ld_outcome>>

writeFailVars == <<wf_variant, wf_buffer, wf_store, wf_produced, wf_failures, wf_pc>>

progressWritersVars == <<pw_unfinished, pw_queue, pw_cpc, pw_mpc, pw_processed, pw_file>>

outputVars == <<of_variant, of_pc, of_output, of_exists, of_rows, of_unreadable, of_progress, of_next, of_runs>>

outLocVars == <<ol_pc, ol_arg, ol_stored, ol_current, ol_sink, ol_rows, ol_next, ol_runs>>

workerRestartVars == <<wr_pc, wr_driver, wr_processed_count, wr_quit, wr_made>>

vars == <<simpleVars, poolVars, resumeVars, sinkVars, admVars, retryVars, ckptVars, interruptWriteVars, turboVars, sinkStopVars, diagVars, feederVars, ladderVars, writeFailVars, progressWritersVars, outputVars, outLocVars, workerRestartVars>>

\* The variables outside each component.
outsideSimple == <<poolVars, resumeVars, sinkVars, admVars, retryVars, ckptVars, interruptWriteVars, turboVars, sinkStopVars, diagVars, feederVars, ladderVars, writeFailVars, progressWritersVars, outputVars, outLocVars, workerRestartVars>>
outsidePool == <<simpleVars, resumeVars, sinkVars, admVars, retryVars, ckptVars, interruptWriteVars, turboVars, sinkStopVars, diagVars, feederVars, ladderVars, writeFailVars, progressWritersVars, outputVars, outLocVars, workerRestartVars>>
outsideResume == <<simpleVars, poolVars, sinkVars, admVars, retryVars, ckptVars, interruptWriteVars, turboVars, sinkStopVars, diagVars, feederVars, ladderVars, writeFailVars, progressWritersVars, outputVars, outLocVars, workerRestartVars>>
outsideSink == <<simpleVars, poolVars, resumeVars, admVars, retryVars, ckptVars, interruptWriteVars, turboVars, sinkStopVars, diagVars, feederVars, ladderVars, writeFailVars, progressWritersVars, outputVars, outLocVars, workerRestartVars>>
outsideAdm == <<simpleVars, poolVars, resumeVars, sinkVars, retryVars, ckptVars, interruptWriteVars, turboVars, sinkStopVars, diagVars, feederVars, ladderVars, writeFailVars, progressWritersVars, outputVars, outLocVars, workerRestartVars>>
outsideRetry == <<simpleVars, poolVars, resumeVars, sinkVars, admVars, ckptVars, interruptWriteVars, turboVars, sinkStopVars, diagVars, feederVars, ladderVars, writeFailVars, progressWritersVars, outputVars, outLocVars, workerRestartVars>>
outsideCkpt == <<simpleVars, poolVars, resumeVars, sinkVars, admVars, retryVars, interruptWriteVars, turboVars, sinkStopVars, diagVars, feederVars, ladderVars, writeFailVars, progressWritersVars, outputVars, outLocVars, workerRestartVars>>
outsideInterruptWrite == <<simpleVars, poolVars, resumeVars, sinkVars, admVars, retryVars, ckptVars, turboVars, sinkStopVars, diagVars, feederVars, ladderVars, writeFailVars, progressWritersVars, outputVars, outLocVars, workerRestartVars>>
\* The turbo workers act on the pool: outside of them is all but the pool.
outsideTurbo == <<simpleVars, resumeVars, sinkVars, admVars, retryVars, ckptVars, interruptWriteVars, sinkStopVars, diagVars, feederVars, ladderVars, writeFailVars, progressWritersVars, outputVars, outLocVars, workerRestartVars>>
outsideSinkStop == <<simpleVars, poolVars, resumeVars, sinkVars, admVars, retryVars, ckptVars, interruptWriteVars, turboVars, diagVars, feederVars, ladderVars, writeFailVars, progressWritersVars, outputVars, outLocVars, workerRestartVars>>
outsideDiag == <<simpleVars, poolVars, resumeVars, sinkVars, admVars, retryVars, ckptVars, interruptWriteVars, turboVars, sinkStopVars, feederVars, ladderVars, writeFailVars, progressWritersVars, outputVars, outLocVars, workerRestartVars>>
outsideFeeder == <<simpleVars, poolVars, resumeVars, sinkVars, admVars, retryVars, ckptVars, interruptWriteVars, turboVars, sinkStopVars, diagVars, ladderVars, writeFailVars, progressWritersVars, outputVars, outLocVars, workerRestartVars>>
outsideLadder == <<simpleVars, poolVars, resumeVars, sinkVars, admVars, retryVars, ckptVars, interruptWriteVars, turboVars, sinkStopVars, diagVars, feederVars, writeFailVars, progressWritersVars, outputVars, outLocVars, workerRestartVars>>
outsideWriteFail == <<simpleVars, poolVars, resumeVars, sinkVars, admVars, retryVars, ckptVars, interruptWriteVars, turboVars, sinkStopVars, diagVars, feederVars, ladderVars, progressWritersVars, outputVars, outLocVars, workerRestartVars>>
outsideProgressWriters == <<simpleVars, poolVars, resumeVars, sinkVars, admVars, retryVars, ckptVars, interruptWriteVars, turboVars, sinkStopVars, diagVars, feederVars, ladderVars, writeFailVars, outputVars, outLocVars, workerRestartVars>>
outsideOutput == <<simpleVars, poolVars, resumeVars, sinkVars, admVars, retryVars, ckptVars, interruptWriteVars, turboVars, sinkStopVars, diagVars, feederVars, ladderVars, writeFailVars, progressWritersVars, outLocVars, workerRestartVars>>
outsideOutLoc == <<simpleVars, poolVars, resumeVars, sinkVars, admVars, retryVars, ckptVars, interruptWriteVars, turboVars, sinkStopVars, diagVars, feederVars, ladderVars, writeFailVars, progressWritersVars, outputVars, workerRestartVars>>
outsideWorkerRestart == <<simpleVars, poolVars, resumeVars, sinkVars, admVars, retryVars, ckptVars, interruptWriteVars, turboVars, sinkStopVars, diagVars, feederVars, ladderVars, writeFailVars, progressWritersVars, outputVars, outLocVars>>

\* ------------------------------------------------------------------------
\* poi_crawler_simple.py
\* ------------------------------------------------------------------------
Addresses == 1..NumAddr
Indices == 0..(NumJobs - 1)

\* load_addresses_from_csv: address is FormattedAddress, else Address, else
\* ConvertedAddress; original_address is Address when the row has one.
\* Address 0 stands for a FormattedAddress string, which differs from every Address.
Formatted == 0
JobShapes ==
    {[address |-> Formatted, original_address |-> o] : o \in Addresses \cup {None}}
        \cup {[address |-> a, original_address |-> a] : a \in {1}}

ResultTypes == {"building_with_poi", "invalid_address", "not_building", "processing_error"}

NoTask == [index |-> None, address |-> None, original_address |-> None, is_retry |-> FALSE]

MainTask(i) == [index |-> i, address |-> batch[i].address,
                original_address |-> batch[i].original_address, is_retry |-> FALSE]

\* ChromeWorker.process_task: the result dict built from crawl_poi_info's answer.
TaskResult(task, rtype) ==
    [index |-> task.index, address |-> task.address,
     original_address |-> task.original_address, is_retry |-> task.is_retry,
     success |-> (rtype # "processing_error"), result_type |-> rtype,
     poi_count |-> IF rtype = "building_with_poi" THEN 1 ELSE 0]

\* ChromeWorker.crawl_poi_info: what the page answers for a task.
CrawlAnswers(task) ==
    IF collab = "scenario"
    THEN (IF task.is_retry THEN {"building_with_poi"} ELSE {"invalid_address"})
    ELSE ResultTypes

\* A retry condition without the is_retry and retry_cache guards.
ShouldRetryUnguarded(result, cache) ==
    /\ result.success
    /\ result.result_type = "invalid_address"
    /\ result.original_address # None

\* SimplePOICrawler.process_results: the condition of the retry with the Japanese address.
ShouldRetry(result, cache) ==
    /\ result.success
    /\ result.result_type = "invalid_address"
    /\ result.original_address # None
    /\ result.address # result.original_address
    /\ ~result.is_retry
    /\ result.original_address \notin cache

RetryTask(result) ==
    [index |-> result.index, address |-> result.original_address,
     original_address |-> result.original_address, is_retry |-> TRUE]

\* The input ladder of a job: its address, then its original address when it has
\* one that differs.
LadderLen(job) ==
    IF job.original_address # None /\ job.original_address # job.address THEN 2 ELSE 1

SimpleInitCommon(nworkers) ==
    /\ task_queue = <<>>
    /\ tq_unfinished = 0
    /\ retry_queue = <<>>
    /\ result_queue = <<>>
    /\ wpc = [w \in 1..nworkers |-> "start"]
    /\ wtask = [w \in 1..nworkers |-> NoTask]
    /\ cpc = "loop"
    /\ cres = NoTask
    /\ mpc = "put"
    /\ mnext = 0
    /\ stop_event = FALSE
    /\ interrupt_flag = FALSE
    /\ retry_cache = {}
    /\ processed_indices = {}
    /\ processed_tasks = 0
    /\ total_tasks = Cardinality(DOMAIN batch)
    /\ attempts = [i \in DOMAIN batch |-> 0]
    /\ terminal = [i \in DOMAIN batch |-> 0]
    /\ used = [i \in DOMAIN batch |-> None]
    /\ retry_seen = 0
    /\ bypass = FALSE
    /\ cleanup = "none"

SimpleInit ==
    /\ batch \in [Indices -> JobShapes]
    /\ collab = "any"
    /\ SimpleInitCommon(NumWorkers)

\* The retry scenario: every job has a FormattedAddress and its own Japanese
\* address; the page is invalid for every FormattedAddress and has POIs for every
\* Japanese address.
ScenarioInit ==
    /\ batch = [i \in 0..(ScenarioJobs - 1) |->
                    [address |-> Formatted, original_address |-> i + 1]]
    /\ collab = "scenario"
    /\ SimpleInitCommon(ScenarioWorkers)

\* The runs checked for termination: any batch, one worker.
TermInit ==
    /\ batch \in [Indices -> JobShapes]
    /\ collab = "any"
    /\ SimpleInitCommon(TermWorkers)

\* ChromeWorker.run: create_driver succeeds.
WorkerCreateDriver(w) ==
    /\ wpc[w] = "start"
    /\ wpc' = [wpc EXCEPT ![w] = "loop"]
    /\ UNCHANGED outsideSimple
    /\ UNCHANGED <<batch, collab, task_queue, tq_unfinished, retry_queue, result_queue,
                   wtask, cpc, cres, mpc, mnext, stop_event, interrupt_flag,
                   retry_cache, processed_indices, processed_tasks, total_tasks,
                   attempts, terminal, used, retry_seen, bypass, cleanup>>

\* ChromeWorker.run: create_driver raises, the thread returns.
WorkerCreateDriverFails(w) ==
    /\ wpc[w] = "start"
    /\ wpc' = [wpc EXCEPT ![w] = "failed"]
    /\ UNCHANGED outsideSimple
    /\ UNCHANGED <<batch, collab, task_queue, tq_unfinished, retry_queue, result_queue,
                   wtask, cpc, cres, mpc, mnext, stop_event, interrupt_flag,
                   retry_cache, processed_indices, processed_tasks, total_tasks,
                   attempts, terminal, used, retry_seen, bypass, cleanup>>

\* ChromeWorker.run: the loop condition, then retry_queue.get_nowait().
WorkerCheckRetry(w) ==
    /\ wpc[w] = "loop"
    /\ IF stop_event
       THEN /\ wpc' = [wpc EXCEPT ![w] = "exited"]
            /\ UNCHANGED <<retry_queue, wtask>>
       ELSE IF retry_queue # <<>>
       THEN /\ wtask' = [wtask EXCEPT ![w] = Head(retry_queue)]
            /\ retry_queue' = Tail(retry_queue)
            /\ wpc' = [wpc EXCEPT ![w] = "process"]
       ELSE /\ wpc' = [wpc EXCEPT ![w] = "wait_main"]
            /\ UNCHANGED <<retry_queue, wtask>>
    /\ UNCHANGED outsideSimple
    /\ UNCHANGED <<batch, collab, task_queue, tq_unfinished, result_queue,
                   cpc, cres, mpc, mnext, stop_event, interrupt_flag,
                   retry_cache, processed_indices, processed_tasks, total_tasks,
                   attempts, terminal, used, retry_seen, bypass, cleanup>>

\* ChromeWorker.run: task_queue.get(timeout=1.0) after queue.Empty of the retry queue.
WorkerGetMain(w) ==
    /\ wpc[w] = "wait_main"
    /\ IF task_queue # <<>>
       THEN /\ wtask' = [wtask EXCEPT ![w] = Head(task_queue)]
            /\ task_queue' = Tail(task_queue)
            /\ wpc' = [wpc EXCEPT ![w] = "process"]
            /\ bypass' = (bypass \/ retry_queue # <<>>)
       ELSE \* queue.Empty after the timeout: continue
            /\ wpc' = [wpc EXCEPT ![w] = "loop"]
            /\ UNCHANGED <<task_queue, wtask, bypass>>
    /\ UNCHANGED outsideSimple
    /\ UNCHANGED <<batch, collab, tq_unfinished, retry_queue, result_queue,
                   cpc, cres, mpc, mnext, stop_event, interrupt_flag,
                   retry_cache, processed_indices, processed_tasks, total_tasks,
                   attempts, terminal, used, retry_seen, cleanup>>

\* ChromeWorker.run: process_task, result_queue.put, task_done of the queue the
\* task came from.
WorkerProcess(w) ==
    /\ wpc[w] = "process"
    /\ \E rtype \in CrawlAnswers(wtask[w]) :
          result_queue' = Append(result_queue, TaskResult(wtask[w], rtype))
    /\ tq_unfinished' = IF wtask[w].is_retry THEN tq_unfinished ELSE tq_unfinished - 1
    /\ attempts' = [attempts EXCEPT ![wtask[w].index] = @ + 1]
    /\ wtask' = [wtask EXCEPT ![w] = NoTask]
    /\ wpc' = [wpc EXCEPT ![w] = "loop"]
    /\ UNCHANGED outsideSimple
    /\ UNCHANGED <<batch, collab, task_queue, retry_queue,
                   cpc, cres, mpc, mnext, stop_event, interrupt_flag,
                   retry_cache, processed_indices, processed_tasks, total_tasks,
                   terminal, used, retry_seen, bypass, cleanup>>

\* process_results: the loop condition, the interrupt check, result_queue.get.
CollectorGet ==
    /\ cpc = "loop"
    /\ IF interrupt_flag \/ (stop_event /\ result_queue = <<>>)
       THEN /\ cpc' = "exited"
            /\ UNCHANGED <<result_queue, cres>>
       ELSE /\ result_queue # <<>>
            /\ cres' = Head(result_queue)
            /\ result_queue' = Tail(result_queue)
            /\ cpc' = "handle"
    /\ UNCHANGED outsideSimple
    /\ UNCHANGED <<batch, collab, task_queue, tq_unfinished, retry_queue,
                   wpc, wtask, mpc, mnext, stop_event, interrupt_flag,
                   retry_cache, processed_indices, processed_tasks, total_tasks,
                   attempts, terminal, used, retry_seen, bypass, cleanup>>

\* process_results: the body of the loop for one result.
CollectorHandle ==
    /\ cpc = "handle"
    /\ processed_indices' = IF cres.is_retry THEN processed_indices
                            ELSE processed_indices \cup {cres.index}
    /\ processed_tasks' = processed_tasks + 1
    /\ IF ShouldRetry(cres, retry_cache)
       THEN /\ retry_cache' = retry_cache \cup {cres.original_address}
            /\ retry_queue' = Append(retry_queue, RetryTask(cres))
            /\ total_tasks' = total_tasks + 1
            /\ retry_seen' = IF retry_queue = <<>> THEN retry_seen + 1 ELSE retry_seen
            /\ UNCHANGED <<terminal, used>>
       ELSE /\ terminal' = [terminal EXCEPT ![cres.index] = @ + 1]
            /\ used' = IF cres.success /\ cres.poi_count > 0
                       THEN [used EXCEPT ![cres.index] = cres.address]
                       ELSE used
            /\ UNCHANGED <<retry_cache, retry_queue, total_tasks, retry_seen>>
    /\ cres' = NoTask
    /\ cpc' = "loop"
    /\ UNCHANGED outsideSimple
    /\ UNCHANGED <<batch, collab, task_queue, tq_unfinished, result_queue,
                   wpc, wtask, mpc, mnext, stop_event, interrupt_flag,
                   attempts, bypass, cleanup>>

\* process_single_file: for addr_data in addresses: task_queue.put(addr_data)
MainPut ==
    /\ mpc = "put"
    /\ IF mnext \in DOMAIN batch
       THEN /\ task_queue' = Append(task_queue, MainTask(mnext))
            /\ tq_unfinished' = tq_unfinished + 1
            /\ mnext' = mnext + 1
            /\ mpc' = "put"
       ELSE /\ mpc' = "join"
            /\ UNCHANGED <<task_queue, tq_unfinished, mnext>>
    /\ UNCHANGED outsideSimple
    /\ UNCHANGED <<batch, collab, retry_queue, result_queue,
                   wpc, wtask, cpc, cres, stop_event, interrupt_flag,
                   retry_cache, processed_indices, processed_tasks, total_tasks,
                   attempts, terminal, used, retry_seen, bypass, cleanup>>

\* process_single_file: task_queue.join()
MainJoin ==
    /\ mpc = "join"
    /\ tq_unfinished = 0
    /\ mpc' = "wait_results"
    /\ UNCHANGED outsideSimple
    /\ UNCHANGED <<batch, collab, task_queue, tq_unfinished, retry_queue, result_queue,
                   wpc, wtask, cpc, cres, mnext, stop_event, interrupt_flag,
                   retry_cache, processed_indices, processed_tasks, total_tasks,
                   attempts, terminal, used, retry_seen, bypass, cleanup>>

\* process_single_file: while not self.result_queue.empty(): time.sleep(0.1)
MainWaitResults ==
    /\ mpc = "wait_results"
    /\ result_queue = <<>>
    /\ mpc' = "finalize"
    /\ UNCHANGED outsideSimple
    /\ UNCHANGED <<batch, collab, task_queue, tq_unfinished, retry_queue, result_queue,
                   wpc, wtask, cpc, cres, mnext, stop_event, interrupt_flag,
                   retry_cache, processed_indices, processed_tasks, total_tasks,
                   attempts, terminal, used, retry_seen, bypass, cleanup>>

\* A retry task waits on retry_queue or is being crawled by a worker.
RetryPending ==
    \/ retry_queue # <<>>
    \/ \E w \in DOMAIN wtask : wtask[w] # NoTask /\ wtask[w].is_retry

\* process_results has taken the terminal result of job i from result_queue: it
\* has handled it, or holds it and will not retry it.
OutcomeTaken(i) ==
    \/ terminal[i] > 0
    \/ cres # NoTask /\ cres.index = i /\ ~ShouldRetry(cres, retry_cache)

OutcomePending == \E i \in DOMAIN terminal : ~OutcomeTaken(i)

\* process_single_file: final_flush, _finalize_file_processing (unless interrupted:
\* _save_progress, then _cleanup_progress removes the progress file), return.
MainFinalize ==
    /\ mpc = "finalize"
    /\ mpc' = "stop_workers"
    /\ cleanup' = IF interrupt_flag THEN cleanup
                  ELSE IF RetryPending THEN "retry_pending"
                  ELSE IF OutcomePending THEN "outcome_pending"
                  ELSE "after_all"
    /\ UNCHANGED outsideSimple
    /\ UNCHANGED <<batch, collab, task_queue, tq_unfinished, retry_queue, result_queue,
                   wpc, wtask, cpc, cres, mnext, stop_event, interrupt_flag,
                   retry_cache, processed_indices, processed_tasks, total_tasks,
                   attempts, terminal, used, retry_seen, bypass>>

\* crawl_from_csv's finally: stop_workers (stop_event.set, task_queue.join unless
\* interrupted, worker.join with a timeout).
MainStopWorkers ==
    /\ mpc = "stop_workers"
    /\ interrupt_flag \/ tq_unfinished = 0
    /\ stop_event' = TRUE
    /\ mpc' = "done"
    /\ UNCHANGED outsideSimple
    /\ UNCHANGED <<batch, collab, task_queue, tq_unfinished, retry_queue, result_queue,
                   wpc, wtask, cpc, cres, mnext, interrupt_flag,
                   retry_cache, processed_indices, processed_tasks, total_tasks,
                   attempts, terminal, used, retry_seen, bypass, cleanup>>

\* _setup_signal_handlers.signal_handler: Ctrl+C
Interrupt ==
    /\ mpc # "done"
    /\ ~interrupt_flag
    /\ interrupt_flag' = TRUE
    /\ stop_event' = TRUE
    /\ UNCHANGED outsideSimple
    /\ UNCHANGED <<batch, collab, task_queue, tq_unfinished, retry_queue, result_queue,
                   wpc, wtask, cpc, cres, mpc, mnext,
                   retry_cache, processed_indices, processed_tasks, total_tasks,
                   attempts, terminal, used, retry_seen, bypass, cleanup>>

\* ------------------------------------------------------------------------
\* parallel_poi_crawler_turbo.py: ChromeDriverPool
\* ------------------------------------------------------------------------
PoolWorkerIds == 0..(PoolWorkers - 1)   \* TurboWorker(i, ...) for i in range(max_workers)
HandleIds == 1..MaxHandles

\* get_driver: the positions of the pool whose driver passes driver.window_handles.
HealthyIdx == {k \in 1..Len(pool) : pool[k] \in healthy}

\* get_driver: the first driver of the pool that passes the probe.
FirstHealthy == CHOOSE k \in HealthyIdx : \A j \in HealthyIdx : k <= j

\* get_driver: the drivers popped before it and quit because their probe failed.
PoppedBroken ==
    IF HealthyIdx = {}
    THEN {pool[k] : k \in 1..Len(pool)}
    ELSE {pool[k] : k \in 1..(FirstHealthy - 1)}

\* release_driver: while driver in self.pool: self.pool.remove(driver)
PoolWithout(d) == SelectSeq(pool, LAMBDA x : x # d)

\* release_driver: self.total_created = max(0, self.total_created - 1)
DecrementCreated(n) == IF n - 1 > 0 THEN n - 1 ELSE 0

\* No call of release_driver yet.
NoRelease == [case |-> "none", quit_fails |-> FALSE, stop_fails |-> FALSE, raised |-> FALSE]

\* release_driver as it would be without the try block around driver.service.stop():
\* the exception of the stop leaves the method.
ReleaseRaisesUnguarded(quit_fails, stop_fails) ==
    LET quit_caught == TRUE
        stop_caught == FALSE
    IN \/ quit_fails /\ ~quit_caught
       \/ quit_fails /\ stop_fails /\ ~stop_caught

\* release_driver: an exception leaves the method. The exception of driver.quit()
\* is caught by 'except Exception as e', the one of driver.service.stop(), called
\* in that branch, by 'except Exception as e2'.
ReleaseRaises(quit_fails, stop_fails) ==
    LET quit_caught == TRUE
        stop_caught == TRUE
    IN \/ quit_fails /\ ~quit_caught
       \/ quit_fails /\ stop_fails /\ ~stop_caught

\* The record of a call of release_driver: the state of the driver it is called
\* with ("held" by the caller, "idle" in the pool, released "again"), whether
\* driver.quit() and driver.service.stop() raise, and whether the call raises.
ReleaseCall(case, quit_fails, stop_fails) ==
    [case |-> case, quit_fails |-> quit_fails, stop_fails |-> stop_fails,
     raised |-> ReleaseRaises(quit_fails, stop_fails)]

\* The ways a call of release_driver on a driver in the given state can go;
\* driver.service.stop() is called only after driver.quit() has raised.
ReleaseCalls(case) ==
    {ReleaseCall(case, q, t) : q \in BOOLEAN, t \in BOOLEAN} \
        {ReleaseCall(case, FALSE, TRUE)}

PoolInit ==
    /\ last_release = NoRelease
    /\ pool = <<>>
    /\ total_created = 0
    /\ driver_usage_count = [h \in HandleIds |-> None]
    /\ current_driver = [w \in PoolWorkerIds |-> None]
    /\ live = {}
    /\ healthy = {}
    /\ released = {}
    /\ handles_made = 0

\* What get_driver would leave in the pool if it read the driver it hands out
\* with self.pool[0] instead of popping it.
PoolAfterPeek == SubSeq(pool, FirstHealthy, Len(pool))

\* get_driver: the pool after the popleft calls that end with the driver it returns.
PoolAfterPopleft == SubSeq(pool, FirstHealthy + 1, Len(pool))

\* get_driver called by a worker that holds no driver; create_optimized_driver,
\* when it is reached, succeeds.
GetDriver(w) ==
    /\ current_driver[w] = None
    /\ IF HealthyIdx # {}
       THEN /\ current_driver' = [current_driver EXCEPT ![w] = pool[FirstHealthy]]
            /\ pool' = PoolAfterPopleft
            /\ live' = live \ PoppedBroken
            /\ UNCHANGED <<total_created, healthy, handles_made>>
       ELSE IF total_created < MaxDrivers
       THEN /\ handles_made < MaxHandles
            /\ handles_made' = handles_made + 1
            /\ total_created' = total_created + 1
            /\ current_driver' = [current_driver EXCEPT ![w] = handles_made + 1]
            /\ live' = (live \ PoppedBroken) \cup {handles_made + 1}
            /\ healthy' = healthy \cup {handles_made + 1}
            /\ pool' = <<>>
       ELSE /\ pool' = <<>>
            /\ live' = live \ PoppedBroken
            /\ UNCHANGED <<total_created, current_driver, healthy, handles_made>>
    /\ UNCHANGED <<driver_usage_count, released, last_release>>

\* A caller of the pool calls get_driver.
PoolGetDriver(w) == GetDriver(w) /\ UNCHANGED outsidePool

\* get_driver: the pool holds no usable driver and create_optimized_driver raises.
GetDriverCreateFails(w) ==
    /\ current_driver[w] = None
    /\ HealthyIdx = {}
    /\ total_created < MaxDrivers
    /\ pool' = <<>>
    /\ live' = live \ PoppedBroken
    /\ UNCHANGED <<total_created, driver_usage_count, current_driver, healthy,
                   released, handles_made, last_release>>

\* A caller of the pool calls get_driver and the creation raises.
PoolGetDriverCreateFails(w) == GetDriverCreateFails(w) /\ UNCHANGED outsidePool

\* TurboWorker.run after a successful task: increment_driver_usage and, when it
\* asks for it, restart_driver whose create_optimized_driver succeeds.
\* (A task whose result is not a success leaves the pool as it is.)
TaskDone(w) ==
    LET d == current_driver[w]
        c == driver_usage_count[d]
    IN
    /\ d # None
    /\ IF c = None
       THEN /\ driver_usage_count' = [driver_usage_count EXCEPT ![d] = 1]
            /\ UNCHANGED <<current_driver, live, healthy, handles_made>>
       ELSE IF c + 1 < DriverMaxTasks
       THEN /\ driver_usage_count' = [driver_usage_count EXCEPT ![d] = c + 1]
            /\ UNCHANGED <<current_driver, live, healthy, handles_made>>
       ELSE IF total_created < MaxDrivers
       THEN \* restart_driver: quit the old driver, create its replacement
            /\ handles_made < MaxHandles
            /\ handles_made' = handles_made + 1
            /\ live' = (live \ {d}) \cup {handles_made + 1}
            /\ healthy' = (healthy \ {d}) \cup {handles_made + 1}
            /\ driver_usage_count' =
                   [driver_usage_count EXCEPT ![d] = None,
                                              ![handles_made + 1] = IF w # 0 THEN 0 ELSE None]
            /\ current_driver' = [current_driver EXCEPT ![w] = handles_made + 1]
       ELSE \* restart_driver: quit the old driver, return None
            /\ live' = live \ {d}
            /\ healthy' = healthy \ {d}
            /\ driver_usage_count' = [driver_usage_count EXCEPT ![d] = None]
            /\ current_driver' = [current_driver EXCEPT ![w] = None]
            /\ UNCHANGED handles_made
    /\ UNCHANGED <<pool, total_created, released, last_release>>

\* A caller of the pool reports a successful task.
PoolTaskDone(w) == TaskDone(w) /\ UNCHANGED outsidePool

\* TurboWorker.run: restart_driver quits the old driver and its
\* create_optimized_driver raises; the except branch of run releases the driver
\* the worker still refers to.
RestartCreateFails(w) ==
    LET d == current_driver[w]
        c == driver_usage_count[d]
    IN
    /\ d # None
    /\ c # None
    /\ c + 1 >= DriverMaxTasks
    /\ total_created < MaxDrivers
    /\ live' = live \ {d}
    /\ healthy' = healthy \ {d}
    /\ driver_usage_count' = [driver_usage_count EXCEPT ![d] = None]
    /\ pool' = PoolWithout(d)
    /\ total_created' = DecrementCreated(total_created)
    /\ released' = released \cup {d}
    /\ current_driver' = [current_driver EXCEPT ![w] = None]
    /\ UNCHANGED handles_made

\* A caller of the pool reports a successful task and the restart raises.
PoolRestartCreateFails(w) ==
    RestartCreateFails(w) /\ UNCHANGED last_release /\ UNCHANGED outsidePool

\* return_driver of the driver a worker holds.
PoolReturnDriver(w) ==
    LET d == current_driver[w] IN
    /\ d # None
    /\ IF d \in healthy
       THEN /\ pool' = Append(pool, d)
            /\ UNCHANGED live
       ELSE \* driver.get raises: _force_quit_driver
            /\ live' = live \ {d}
            /\ UNCHANGED pool
    /\ current_driver' = [current_driver EXCEPT ![w] = None]
    /\ UNCHANGED <<total_created, driver_usage_count, healthy, released, handles_made,
                   last_release>>
    /\ UNCHANGED outsidePool

\* release_driver of the driver a worker holds (TurboWorker.run after an exception
\* in a task and at the end of the thread).
ReleaseDriver(w) ==
    LET d == current_driver[w] IN
    /\ d # None
    /\ pool' = PoolWithout(d)
    /\ live' = live \ {d}
    /\ healthy' = healthy \ {d}
    /\ total_created' = DecrementCreated(total_created)
    /\ released' = released \cup {d}
    /\ current_driver' = [current_driver EXCEPT ![w] = None]
    /\ UNCHANGED <<driver_usage_count, handles_made>>

\* A caller of the pool calls release_driver.
PoolReleaseDriver(w) == ReleaseDriver(w) /\ UNCHANGED last_release /\ UNCHANGED outsidePool

\* release_driver called once more with a driver that was released before.
ReleaseAgain(d) ==
    /\ d \in released
    /\ pool' = PoolWithout(d)
    /\ live' = live \ {d}
    /\ healthy' = healthy \ {d}
    /\ total_created' = DecrementCreated(total_created)
    /\ UNCHANGED <<driver_usage_count, current_driver, released, handles_made>>

\* A caller of the pool calls release_driver a second time.
PoolReleaseAgain(d) == ReleaseAgain(d) /\ UNCHANGED last_release /\ UNCHANGED outsidePool

\* release_driver called with a driver that waits in the pool.
ReleaseIdle(d) ==
    /\ \E k \in 1..Len(pool) : pool[k] = d
    /\ pool' = PoolWithout(d)
    /\ live' = live \ {d}
    /\ healthy' = healthy \ {d}
    /\ total_created' = DecrementCreated(total_created)
    /\ released' = released \cup {d}
    /\ UNCHANGED <<driver_usage_count, current_driver, handles_made>>

\* The browser of a live driver stops answering.
PoolDriverBreaks(d) ==
    /\ d \in live
    /\ d \in healthy
    /\ healthy' = healthy \ {d}
    /\ UNCHANGED <<pool, total_created, driver_usage_count, current_driver, live,
                   released, handles_made, last_release>>
    /\ UNCHANGED outsidePool

PoolNext ==
    \/ \E w \in PoolWorkerIds : PoolGetDriver(w)
    \/ \E w \in PoolWorkerIds : PoolGetDriverCreateFails(w)
    \/ \E w \in PoolWorkerIds : PoolTaskDone(w)
    \/ \E w \in PoolWorkerIds : PoolRestartCreateFails(w)
    \/ \E w \in PoolWorkerIds : PoolReturnDriver(w)
    \/ \E w \in PoolWorkerIds : PoolReleaseDriver(w)
    \/ \E d \in HandleIds : PoolReleaseAgain(d)
    \/ \E d \in HandleIds : PoolDriverBreaks(d)

\* The calls of release_driver with their outcome: by the worker that holds the
\* driver (TurboWorker.run, _crawl_with_driver_sync), ...
RelReleaseHeld(w) ==
    /\ ReleaseDriver(w)
    /\ last_release' \in ReleaseCalls("held")
    /\ UNCHANGED outsidePool

\* ... a second time with the same driver, ...
RelReleaseAgain(d) ==
    /\ ReleaseAgain(d)
    /\ last_release' \in ReleaseCalls("again")
    /\ UNCHANGED outsidePool

\* ... and with a driver that is back in the pool.
RelReleaseIdle(d) ==
    /\ ReleaseIdle(d)
    /\ last_release' \in ReleaseCalls("idle")
    /\ UNCHANGED outsidePool

ReleaseNext ==
    \/ \E w \in PoolWorkerIds : PoolGetDriver(w)
    \/ \E w \in PoolWorkerIds : PoolReturnDriver(w)
    \/ \E d \in HandleIds : PoolDriverBreaks(d)
    \/ \E w \in PoolWorkerIds : RelReleaseHeld(w)
    \/ \E d \in HandleIds : RelReleaseAgain(d)
    \/ \E d \in HandleIds : RelReleaseIdle(d)

\* ------------------------------------------------------------------------
\* Checkpoint and resume: SimplePOICrawler (poi_crawler_simple.py) and
\* ParallelPOICrawler (parallel_poi_crawler.py)
\* ------------------------------------------------------------------------
ResumeIndices == 0..(ResumeJobs - 1)    \* the index column of df.iterrows()

\* crawl_from_csv: total_batches = (total_addresses + size - 1) // size
TotalBatches == (ResumeJobs + ResumeBatchSize - 1) \div ResumeBatchSize

\* crawl_from_csv: the addresses of range(start_idx, end_idx) of a batch.
BatchJobs(b) ==
    {i \in ResumeIndices : b * ResumeBatchSize <= i /\ i < (b + 1) * ResumeBatchSize}

NoProgress == [exists |-> FALSE, offset |-> None, processed_tasks |-> 0]

SetMax(S) == CHOOSE x \in S : \A y \in S : y <= x

\* SimplePOICrawler._get_last_processed_index
GetLastProcessedIndex(indices) == IF indices = {} THEN -1 ELSE SetMax(indices)

\* SimplePOICrawler._setup_file_processing: remaining_addresses
RemainingAddresses(last_processed_index) ==
    {i \in ResumeIndices : i > last_processed_index}

ResumeInitCommon ==
    /\ progress_file = NoProgress
    /\ rs_pc = "setup"
    /\ rs_loaded = NoProgress
    /\ rs_pending = {}
    /\ rs_processed_indices = {}
    /\ rs_processed_tasks = 0
    /\ batch_id = 0
    /\ rs_dispatched = {}
    /\ rs_runs = 1
    /\ rs_after_success = FALSE

ResumeInit ==
    /\ rs_variant \in {"simple", "parallel"}
    /\ ResumeInitCommon

\* SimplePOICrawler._setup_file_processing: _load_progress, the statistics and
\* processed_indices rebuilt from it, the filter of the addresses; with nothing
\* left, _cleanup_progress and return None.
RsSetup ==
    /\ rs_variant = "simple"
    /\ rs_pc = "setup"
    /\ rs_loaded' = progress_file
    /\ IF progress_file.exists
       THEN /\ rs_processed_tasks' = progress_file.processed_tasks
            /\ rs_processed_indices' = 0..progress_file.offset
            /\ IF RemainingAddresses(progress_file.offset) = {}
               THEN /\ progress_file' = NoProgress
                    /\ rs_pc' = "done"
               ELSE /\ rs_pc' = "put"
                    /\ UNCHANGED progress_file
       ELSE /\ rs_processed_tasks' = 0
            /\ rs_processed_indices' = {}
            /\ rs_pc' = "put"
            /\ UNCHANGED progress_file
    /\ UNCHANGED <<rs_variant, rs_after_success, rs_pending, batch_id, rs_dispatched, rs_runs>>
    /\ UNCHANGED outsideResume

\* SimplePOICrawler.process_single_file: for addr_data in addresses: task_queue.put
RsPutTasks ==
    /\ rs_variant = "simple"
    /\ rs_pc = "put"
    /\ rs_pending' = (IF rs_loaded.exists THEN RemainingAddresses(rs_loaded.offset)
                      ELSE ResumeIndices)
    /\ rs_dispatched' = rs_pending'
    /\ rs_pc' = "run"
    /\ UNCHANGED <<rs_variant, rs_after_success, progress_file, rs_loaded, rs_processed_indices,
                   rs_processed_tasks, batch_id, rs_runs>>
    /\ UNCHANGED outsideResume

\* SimplePOICrawler.process_results for the result of one task (the workers finish
\* the queued tasks in any order): processed_indices, processed_tasks and the
\* periodic _save_progress.
RsResult(i) ==
    /\ rs_variant = "simple"
    /\ rs_pc = "run"
    /\ i \in rs_pending
    /\ rs_pending' = rs_pending \ {i}
    /\ rs_processed_indices' = rs_processed_indices \cup {i}
    /\ rs_processed_tasks' = rs_processed_tasks + 1
    /\ IF rs_processed_tasks' % SaveEvery = 0
       THEN progress_file' =
                [exists |-> TRUE,
                 offset |-> GetLastProcessedIndex(rs_processed_indices'),
                 processed_tasks |-> rs_processed_tasks']
       ELSE UNCHANGED progress_file
    /\ UNCHANGED <<rs_variant, rs_after_success, rs_pc, rs_loaded, batch_id, rs_dispatched, rs_runs>>
    /\ UNCHANGED outsideResume

\* SimplePOICrawler._finalize_file_processing after task_queue.join():
\* _save_progress, then _cleanup_progress.
RsFinalize ==
    /\ rs_variant = "simple"
    /\ rs_pc = "run"
    /\ rs_pending = {}
    /\ progress_file' = NoProgress
    /\ rs_pc' = "done"
    /\ UNCHANGED <<rs_variant, rs_after_success, rs_loaded, rs_pending, rs_processed_indices,
                   rs_processed_tasks, batch_id, rs_dispatched, rs_runs>>
    /\ UNCHANGED outsideResume

\* ParallelPOICrawler.crawl_from_csv: _load_progress and start_batch_id.
ParSetup ==
    /\ rs_variant = "parallel"
    /\ rs_pc = "setup"
    /\ rs_loaded' = progress_file
    /\ batch_id' = IF progress_file.exists THEN progress_file.offset ELSE 0
    /\ rs_pc' = "loop"
    /\ UNCHANGED <<rs_variant, rs_after_success, progress_file, rs_pending, rs_processed_indices,
                   rs_processed_tasks, rs_dispatched, rs_runs>>
    /\ UNCHANGED outsideResume

\* ParallelPOICrawler.crawl_from_csv: process_batch of the batch batch_id.
ParProcessBatch ==
    /\ rs_variant = "parallel"
    /\ rs_pc = "loop"
    /\ batch_id < TotalBatches
    /\ rs_dispatched' = rs_dispatched \cup BatchJobs(batch_id)
    /\ rs_pc' = "save"
    /\ UNCHANGED <<rs_variant, rs_after_success, progress_file, rs_loaded, rs_pending,
                   rs_processed_indices, rs_processed_tasks, batch_id, rs_runs>>
    /\ UNCHANGED outsideResume

\* ParallelPOICrawler.crawl_from_csv: _save_progress(district_name, batch_id, ...)
\* after the batch, then the next iteration of the loop.
ParSaveProgress ==
    /\ rs_variant = "parallel"
    /\ rs_pc = "save"
    /\ progress_file' = [exists |-> TRUE, offset |-> batch_id, processed_tasks |-> 0]
    /\ batch_id' = batch_id + 1
    /\ rs_pc' = "loop"
    /\ UNCHANGED <<rs_variant, rs_after_success, rs_loaded, rs_pending, rs_processed_indices,
                   rs_processed_tasks, rs_dispatched, rs_runs>>
    /\ UNCHANGED outsideResume

\* ParallelPOICrawler.crawl_from_csv after the loop: _final_deduplication,
\* _cleanup_progress.
ParFinish ==
    /\ rs_variant = "parallel"
    /\ rs_pc = "loop"
    /\ batch_id >= TotalBatches
    /\ progress_file' = NoProgress
    /\ rs_pc' = "done"
    /\ UNCHANGED <<rs_variant, rs_after_success, rs_loaded, rs_pending, rs_processed_indices,
                   rs_processed_tasks, batch_id, rs_dispatched, rs_runs>>
    /\ UNCHANGED outsideResume

\* The process is killed during a run and the program is started again on the same
\* input: the memory of the run is lost, the progress file stays.
RsCrashAndRestart ==
    /\ rs_pc \in {"put", "run", "loop", "save", "async"}
    /\ rs_runs < MaxRuns
    /\ rs_runs' = rs_runs + 1
    /\ rs_pc' = "setup"
    /\ rs_loaded' = NoProgress
    /\ rs_pending' = {}
    /\ rs_processed_indices' = {}
    /\ rs_processed_tasks' = 0
    /\ batch_id' = 0
    /\ rs_dispatched' = {}
    /\ rs_after_success' = FALSE
    /\ UNCHANGED <<rs_variant, progress_file>>
    /\ UNCHANGED outsideResume

\* The jobs of the addresses addresses[first:last] of crawl_from_csv_async.
TurboJobs(first, last) == {i \in ResumeIndices : first <= i /\ i < last}

\* _save_progress_async(district_name, completed_count, ...)
TurboProgress(completed_count) ==
    [exists |-> TRUE, offset |-> completed_count, processed_tasks |-> 0]

\* crawl_from_csv_async: _load_progress, start_idx = completed_count,
\* addresses = addresses[start_idx:].
TurboSetup ==
    /\ rs_variant = "turbo"
    /\ rs_pc = "setup"
    /\ rs_loaded' = progress_file
    /\ rs_processed_tasks' = IF progress_file.exists THEN progress_file.offset ELSE 0
    /\ rs_pc' = "async"
    /\ UNCHANGED <<rs_variant, rs_after_success, progress_file, rs_pending,
                   rs_processed_indices, batch_id, rs_dispatched, rs_runs>>
    /\ UNCHANGED outsideResume

\* crawl_from_csv_async: one batch of the loop, crawl_batch_async and the count of
\* its results; the progress is saved when 2 minutes have passed or the count is
\* a multiple of 500.
TurboBatch ==
    LET last == IF rs_processed_tasks + ResumeBatchSize < ResumeJobs
                THEN rs_processed_tasks + ResumeBatchSize ELSE ResumeJobs
    IN
    /\ rs_variant = "turbo"
    /\ rs_pc = "async"
    /\ rs_processed_tasks < ResumeJobs
    /\ rs_dispatched' = rs_dispatched \cup TurboJobs(rs_processed_tasks, last)
    /\ rs_processed_tasks' = last
    /\ \E save \in BOOLEAN :
          progress_file' = IF save THEN TurboProgress(last) ELSE progress_file
    /\ UNCHANGED <<rs_variant, rs_after_success, rs_pc, rs_loaded, rs_pending,
                   rs_processed_indices, batch_id, rs_runs>>
    /\ UNCHANGED outsideResume

\* crawl_from_csv_async after the loop: the last batch is submitted, the final
\* _save_progress_async, the wait for the save queue, return; the finally block
\* cleans up the wrapper and the save manager.
TurboFinish ==
    /\ rs_variant = "turbo"
    /\ rs_pc = "async"
    /\ rs_processed_tasks >= ResumeJobs
    /\ progress_file' = TurboProgress(rs_processed_tasks)
    /\ rs_pc' = "done"
    /\ UNCHANGED <<rs_variant, rs_after_success, rs_loaded, rs_pending,
                   rs_processed_indices, rs_processed_tasks, batch_id, rs_dispatched,
                   rs_runs>>
    /\ UNCHANGED outsideResume

\* The run has completed the batch and the program is started again on the same
\* input.
RsRunAgain ==
    /\ rs_pc = "done"
    /\ rs_runs < MaxRuns
    /\ rs_runs' = rs_runs + 1
    /\ rs_pc' = "setup"
    /\ rs_loaded' = NoProgress
    /\ rs_pending' = {}
    /\ rs_processed_indices' = {}
    /\ rs_processed_tasks' = 0
    /\ batch_id' = 0
    /\ rs_dispatched' = {}
    /\ rs_after_success' = TRUE
    /\ UNCHANGED <<rs_variant, progress_file>>
    /\ UNCHANGED outsideResume

\* The runs of the three crawlers on one batch: runs that complete, runs that are
\* killed, and the runs started after them.
LifecycleInit ==
    /\ rs_variant \in {"simple", "parallel", "turbo"}
    /\ ResumeInitCommon

LifecycleNext ==
    \/ RsSetup
    \/ RsPutTasks
    \/ \E i \in ResumeIndices : RsResult(i)
    \/ RsFinalize
    \/ ParSetup
    \/ ParProcessBatch
    \/ ParSaveProgress
    \/ ParFinish
    \/ TurboSetup
    \/ TurboBatch
    \/ TurboFinish
    \/ RsCrashAndRestart
    \/ RsRunAgain

ResumeNext ==
    \/ RsSetup
    \/ RsPutTasks
    \/ \E i \in ResumeIndices : RsResult(i)
    \/ RsFinalize
    \/ ParSetup
    \/ ParProcessBatch
    \/ ParSaveProgress
    \/ ParFinish
    \/ RsCrashAndRestart

\* ------------------------------------------------------------------------
\* Result sinks: ResultBuffer (poi_crawler_simple.py), AsyncDataSaveManager and
\* DataSaveWorker (parallel_poi_crawler_turbo.py), collect_results with
\* _batch_append_to_output_file and _final_deduplication (parallel_poi_crawler_hybrid.py)
\*
\* The runs of the sinks are runs without Ctrl+C: interrupt_flag stays clear, so
\* _flush_to_disk never skips its write for it. A run can still stop at any point
\* (SkCrashAndRestart) and be started again on the same output file.
\* ------------------------------------------------------------------------
Keys == 1..NumKeys

RECURSIVE SortedSeq(_)
SortedSeq(S) ==
    IF S = {} THEN <<>>
    ELSE LET m == CHOOSE x \in S : \A y \in S : x <= y
         IN <<m>> \o SortedSeq(S \ {m})

\* The DataFrame of one result: the POIs of one page, a page listing a POI once.
Payloads == {SortedSeq(S) : S \in (SUBSET Keys) \ {{}}}

\* pd.concat(list of DataFrames, ignore_index=True)
RECURSIVE Concat(_)
Concat(frames) ==
    IF frames = <<>> THEN <<>> ELSE Head(frames) \o Concat(Tail(frames))

SeqRange(rows) == {rows[k] : k \in 1..Len(rows)}

\* df.drop_duplicates(subset=['name', 'lat', 'lng'], keep='first')
RECURSIVE DropDuplicates(_)
DropDuplicates(rows) ==
    IF rows = <<>> THEN <<>>
    ELSE LET front == DropDuplicates(SubSeq(rows, 1, Len(rows) - 1))
             last == rows[Len(rows)]
         IN IF last \in SeqRange(front) THEN front ELSE Append(front, last)

SinkInitCommon ==
    /\ sk_pc = "run"
    /\ sk_buffer = <<>>
    /\ save_queue = <<>>
    /\ save_stop = FALSE
    /\ output_rows = <<>>
    /\ sk_left = SinkResults
    /\ sk_runs = 1

SinkInit ==
    /\ sk_variant \in {"simple", "turbo", "hybrid"}
    /\ SinkInitCommon

\* ResultBuffer.add_result of a result with POI data, with _flush_to_disk when the
\* buffer reaches batch_size; a to_csv that raises leaves the buffer as it is.
SkAddResult(p) ==
    /\ sk_variant = "simple"
    /\ sk_pc = "run"
    /\ sk_left > 0
    /\ sk_left' = sk_left - 1
    /\ IF Len(sk_buffer) + 1 >= SinkBatchSize
       THEN \E written \in BOOLEAN :
               IF written
               THEN /\ output_rows' = output_rows \o Concat(Append(sk_buffer, p))
                    /\ sk_buffer' = <<>>
               ELSE /\ sk_buffer' = Append(sk_buffer, p)
                    /\ UNCHANGED output_rows
       ELSE /\ sk_buffer' = Append(sk_buffer, p)
            /\ UNCHANGED output_rows
    /\ UNCHANGED <<sk_variant, sk_pc, save_queue, save_stop, sk_runs>>
    /\ UNCHANGED outsideSink

\* ResultBuffer.auto_flush: _flush_to_disk of a non-empty buffer after flush_interval.
SkAutoFlush ==
    /\ sk_variant = "simple"
    /\ sk_buffer # <<>>
    /\ output_rows' = output_rows \o Concat(sk_buffer)
    /\ sk_buffer' = <<>>
    /\ UNCHANGED <<sk_variant, sk_pc, save_queue, save_stop, sk_left, sk_runs>>
    /\ UNCHANGED outsideSink

\* ResultBuffer.final_flush at the end of process_single_file.
SkFinalFlush ==
    /\ sk_variant = "simple"
    /\ sk_pc = "run"
    /\ sk_left = 0
    /\ output_rows' = output_rows \o Concat(sk_buffer)
    /\ sk_buffer' = <<>>
    /\ sk_pc' = "done"
    /\ UNCHANGED <<sk_variant, save_queue, save_stop, sk_left, sk_runs>>
    /\ UNCHANGED outsideSink

\* crawl_from_csv_async: batch_data.append(result['data'])
TbCollect(p) ==
    /\ sk_variant = "turbo"
    /\ sk_pc = "run"
    /\ sk_left > 0
    /\ sk_left' = sk_left - 1
    /\ sk_buffer' = Append(sk_buffer, p)
    /\ UNCHANGED <<sk_variant, sk_pc, save_queue, save_stop, output_rows, sk_runs>>
    /\ UNCHANGED outsideSink

\* crawl_from_csv_async: save_manager.save_batch_async(batch_data.copy()); the put
\* succeeds when the queue has room within the timeout.
TbSubmit ==
    /\ sk_variant = "turbo"
    /\ sk_pc = "run"
    /\ sk_buffer # <<>>
    /\ IF Len(save_queue) < SaveQueueSize
       THEN /\ save_queue' = Append(save_queue, sk_buffer)
            /\ sk_buffer' = <<>>
            /\ UNCHANGED sk_pc
       ELSE /\ sk_pc' = "check_size"
            /\ UNCHANGED <<save_queue, sk_buffer>>
    /\ UNCHANGED <<sk_variant, save_stop, output_rows, sk_left, sk_runs>>
    /\ UNCHANGED outsideSink

\* crawl_from_csv_async after a refused batch:
\* if save_manager.get_queue_size() < 10: batch_data = []
TbCheckSize ==
    /\ sk_variant = "turbo"
    /\ sk_pc = "check_size"
    /\ sk_buffer' = IF Len(save_queue) < QueueLowMark THEN <<>> ELSE sk_buffer
    /\ sk_pc' = "run"
    /\ UNCHANGED <<sk_variant, save_queue, save_stop, output_rows, sk_left, sk_runs>>
    /\ UNCHANGED outsideSink

\* DataSaveWorker.save_worker_process for one batch of the queue: concat,
\* drop_duplicates inside the batch, append to the output file.
TbSaveWorker ==
    /\ sk_variant = "turbo"
    /\ ~save_stop
    /\ save_queue # <<>>
    /\ output_rows' = output_rows \o DropDuplicates(Concat(Head(save_queue)))
    /\ save_queue' = Tail(save_queue)
    /\ UNCHANGED <<sk_variant, sk_pc, sk_buffer, save_stop, sk_left, sk_runs>>
    /\ UNCHANGED outsideSink

\* crawl_from_csv_async after the last batch: the remaining batch_data is submitted
\* (a refused batch is not kept), then the wait for the queue to drain.
TbFinalSubmit ==
    /\ sk_variant = "turbo"
    /\ sk_pc = "run"
    /\ sk_left = 0
    /\ save_queue' = IF sk_buffer # <<>> /\ Len(save_queue) < SaveQueueSize
                     THEN Append(save_queue, sk_buffer) ELSE save_queue
    /\ sk_buffer' = <<>>
    /\ sk_pc' = "drain"
    /\ UNCHANGED <<sk_variant, save_stop, output_rows, sk_left, sk_runs>>
    /\ UNCHANGED outsideSink

\* crawl_from_csv_async: the wait ends (queue empty, or 30 rounds of 2 s), then
\* save_manager.stop() sets stop_event.
TbStop ==
    /\ sk_variant = "turbo"
    /\ sk_pc = "drain"
    /\ save_stop' = TRUE
    /\ sk_pc' = "done"
    /\ UNCHANGED <<sk_variant, sk_buffer, save_queue, output_rows, sk_left, sk_runs>>
    /\ UNCHANGED outsideSink

\* collect_results of the hybrid crawler for a result with POI data: append to
\* batch_data, then _batch_append_to_output_file when the batch is large enough or
\* 5 s have passed since the last write.
HyCollect(p) ==
    /\ sk_variant = "hybrid"
    /\ sk_pc = "run"
    /\ sk_left > 0
    /\ sk_left' = sk_left - 1
    /\ \E timer \in BOOLEAN :
          IF Len(sk_buffer) + 1 >= SinkBatchSize \/ timer
          THEN /\ output_rows' =
                      output_rows \o DropDuplicates(Concat(Append(sk_buffer, p)))
               /\ sk_buffer' = <<>>
          ELSE /\ sk_buffer' = Append(sk_buffer, p)
               /\ UNCHANGED output_rows
    /\ UNCHANGED <<sk_variant, sk_pc, save_queue, save_stop, sk_runs>>
    /\ UNCHANGED outsideSink

\* collect_results after its loop: the remaining batch_data is written.
HyWriteRest ==
    /\ sk_variant = "hybrid"
    /\ sk_pc = "run"
    /\ sk_left = 0
    /\ output_rows' = output_rows \o DropDuplicates(Concat(sk_buffer))
    /\ sk_buffer' = <<>>
    /\ sk_pc' = "dedup"
    /\ UNCHANGED <<sk_variant, save_queue, save_stop, sk_left, sk_runs>>
    /\ UNCHANGED outsideSink

\* crawl_from_csv_hybrid: _final_deduplication at the end of the run.
HyFinalDeduplication ==
    /\ sk_variant = "hybrid"
    /\ sk_pc = "dedup"
    /\ output_rows' = DropDuplicates(output_rows)
    /\ sk_pc' = "done"
    /\ UNCHANGED <<sk_variant, sk_buffer, save_queue, save_stop, sk_left, sk_runs>>
    /\ UNCHANGED outsideSink

\* The process is killed during a run and the program is started again with the
\* same output file: buffers and queue are lost, the rows written stay.
SkCrashAndRestart ==
    /\ sk_pc # "done"
    /\ sk_runs < SinkRuns
    /\ sk_runs' = sk_runs + 1
    /\ sk_pc' = "run"
    /\ sk_buffer' = <<>>
    /\ save_queue' = <<>>
    /\ save_stop' = FALSE
    /\ sk_left' = SinkResults
    /\ UNCHANGED <<sk_variant, output_rows>>
    /\ UNCHANGED outsideSink

SinkNext ==
    \/ \E p \in Payloads : SkAddResult(p)
    \/ SkAutoFlush
    \/ SkFinalFlush
    \/ \E p \in Payloads : TbCollect(p)
    \/ TbSubmit
    \/ TbCheckSize
    \/ TbSaveWorker
    \/ TbFinalSubmit
    \/ TbStop
    \/ \E p \in Payloads : HyCollect(p)
    \/ HyWriteRest
    \/ HyFinalDeduplication
    \/ SkCrashAndRestart

\* ------------------------------------------------------------------------
\* parallel_poi_crawler_turbo.py: DynamicResourceScheduler and the admission of
\* jobs in AsyncCrawlWrapper.crawl_single_address_async
\* ------------------------------------------------------------------------
memory_high_threshold == 85
memory_low_threshold == 60
cpu_high_threshold == 90
cpu_low_threshold == 70
load_high_threshold == 8
memory_ceiling == 90      \* resources['system_memory_percent'] > 90
load_low_threshold == 6   \* resources['load_average'] < 6.0
memory_danger == 95       \* crawl_from_csv_async: system_memory_percent > 95

\* Values of the three metrics on both sides of every threshold.
MemLevels == {59, 60, 85, 86, 90, 91, 96}
CpuLevels == {69, 70, 90, 91}
LoadLevels == {5, 6, 8, 9}
Samples == [mem : MemLevels, cpu : CpuLevels, load : LoadLevels]

AdmJobIds == 1..AdmJobs

BoolToInt(b) == IF b THEN 1 ELSE 0

\* A pause condition that fires on one overloaded metric.
ShouldPauseOnOne(resources) ==
    \/ resources.mem > memory_high_threshold
    \/ resources.cpu > cpu_high_threshold
    \/ resources.load > load_high_threshold

\* DynamicResourceScheduler._should_pause_scheduling
ShouldPauseScheduling(resources) ==
    LET memory_overload == resources.mem > memory_high_threshold
        cpu_overload == resources.cpu > cpu_high_threshold
        load_overload == resources.load > load_high_threshold
        critical_conditions ==
            BoolToInt(memory_overload) + BoolToInt(cpu_overload) + BoolToInt(load_overload)
    IN critical_conditions >= 2 \/ resources.mem > memory_ceiling

\* A resume condition that looks at memory only.
ShouldResumeOnMemory(resources, paused) ==
    paused /\ resources.mem < memory_low_threshold

\* DynamicResourceScheduler._should_resume_scheduling
ShouldResumeScheduling(resources, paused) ==
    IF ~paused THEN FALSE
    ELSE /\ resources.mem < memory_low_threshold
         /\ resources.cpu < cpu_low_threshold
         /\ resources.load < load_low_threshold

\* A wait that returns at once.
WaitReturnsAtOnce(j) == TRUE

\* DynamicResourceScheduler.wait_for_scheduling(30.0) returns: the event is set or
\* the timeout has passed.
WaitReturns(j) == feeding_event \/ waited[j] >= WaitTicks

\* async with self.semaphore: the jobs that hold the semaphore.
InSemaphore == {j \in AdmJobIds : jpc[j] \in {"waiting", "running"}}

AdmInit ==
    /\ is_paused = FALSE
    /\ feeding_event = TRUE
    /\ since_check = CheckInterval
    /\ metrics \in Samples
    /\ jpc = [j \in AdmJobIds |-> "pending"]
    /\ waited = [j \in AdmJobIds |-> 0]
    /\ adm_pc = "batch"
    /\ last_op = "other"
    /\ was_paused = FALSE
    /\ paused_dispatch = FALSE
    /\ early_dispatch = FALSE

\* The job j after check_and_adjust_schedule answered paused: it waits when paused,
\* else it is handed to the executor at once.
AdmitJob(j, paused) ==
    /\ jpc' = [jpc EXCEPT ![j] = IF paused THEN "waiting" ELSE "running"]
    /\ waited' = [waited EXCEPT ![j] = 0]

\* crawl_single_address_async: the semaphore is acquired and
\* check_and_adjust_schedule returns early, less than check_interval after the
\* last check.
JobAdmitCheckSkipped(j) ==
    /\ adm_pc = "batch"
    /\ jpc[j] = "pending"
    /\ Cardinality(InSemaphore) < AdmSemaphore
    /\ since_check < CheckInterval
    /\ AdmitJob(j, is_paused)
    /\ last_op' = "other"
    /\ was_paused' = is_paused
    /\ UNCHANGED <<is_paused, feeding_event, since_check, metrics, adm_pc,
                   paused_dispatch, early_dispatch>>
    /\ UNCHANGED outsideAdm

\* crawl_single_address_async: check_and_adjust_schedule sets last_check_time and
\* monitor_system_resources() returns nothing.
JobAdmitNoResources(j) ==
    /\ adm_pc = "batch"
    /\ jpc[j] = "pending"
    /\ Cardinality(InSemaphore) < AdmSemaphore
    /\ since_check >= CheckInterval
    /\ since_check' = 0
    /\ AdmitJob(j, is_paused)
    /\ last_op' = "other"
    /\ was_paused' = is_paused
    /\ UNCHANGED <<is_paused, feeding_event, metrics, adm_pc,
                   paused_dispatch, early_dispatch>>
    /\ UNCHANGED outsideAdm

\* crawl_single_address_async: check_and_adjust_schedule samples the resources and
\* pauses (_pause_scheduling), resumes (_resume_scheduling) or leaves the state.
JobAdmitSampled(j) ==
    /\ adm_pc = "batch"
    /\ jpc[j] = "pending"
    /\ Cardinality(InSemaphore) < AdmSemaphore
    /\ since_check >= CheckInterval
    /\ since_check' = 0
    /\ IF ShouldPauseScheduling(metrics) /\ ~is_paused
       THEN /\ is_paused' = TRUE
            /\ feeding_event' = FALSE
       ELSE IF ShouldResumeScheduling(metrics, is_paused) /\ is_paused
       THEN /\ is_paused' = FALSE
            /\ feeding_event' = TRUE
       ELSE UNCHANGED <<is_paused, feeding_event>>
    /\ AdmitJob(j, is_paused')
    /\ last_op' = "sampled"
    /\ was_paused' = is_paused
    /\ UNCHANGED <<metrics, adm_pc, paused_dispatch, early_dispatch>>
    /\ UNCHANGED outsideAdm

\* crawl_single_address_async: wait_for_scheduling returned, the job is handed to
\* the executor (run_in_executor of _crawl_with_driver_sync).
JobWaitReturns(j) ==
    /\ jpc[j] = "waiting"
    /\ WaitReturns(j)
    /\ jpc' = [jpc EXCEPT ![j] = "running"]
    /\ paused_dispatch' = (paused_dispatch \/ is_paused)
    /\ early_dispatch' = (early_dispatch \/ (is_paused /\ waited[j] < WaitTicks))
    /\ last_op' = "other"
    /\ was_paused' = is_paused
    /\ UNCHANGED <<is_paused, feeding_event, since_check, metrics, waited, adm_pc>>
    /\ UNCHANGED outsideAdm

\* crawl_single_address_async: _crawl_with_driver_sync returned, the semaphore is
\* released.
JobDone(j) ==
    /\ jpc[j] = "running"
    /\ jpc' = [jpc EXCEPT ![j] = "done"]
    /\ last_op' = "other"
    /\ was_paused' = is_paused
    /\ UNCHANGED <<is_paused, feeding_event, since_check, metrics, waited, adm_pc,
                   paused_dispatch, early_dispatch>>
    /\ UNCHANGED outsideAdm

\* crawl_from_csv_async: crawl_batch_async returned (asyncio.gather of the batch).
AdmBatchDone ==
    /\ adm_pc = "batch"
    /\ \A j \in AdmJobIds : jpc[j] = "done"
    /\ adm_pc' = "check"
    /\ last_op' = "other"
    /\ was_paused' = is_paused
    /\ UNCHANGED <<is_paused, feeding_event, since_check, metrics, jpc, waited,
                   paused_dispatch, early_dispatch>>
    /\ UNCHANGED outsideAdm

\* crawl_from_csv_async: memory above 95%: force_pause(), then asyncio.sleep(5).
AdmForcePause ==
    /\ adm_pc = "check"
    /\ metrics.mem > memory_danger
    /\ is_paused' = TRUE
    /\ feeding_event' = FALSE
    /\ adm_pc' = "sleeping"
    /\ last_op' = "force_pause"
    /\ was_paused' = is_paused
    /\ UNCHANGED <<since_check, metrics, jpc, waited, paused_dispatch, early_dispatch>>
    /\ UNCHANGED outsideAdm

\* A force_resume that resets the flag and leaves the event as it is after a pause.
ForceResumeFlagOnly == [is_paused |-> FALSE, feeding_event |-> FALSE]

\* DynamicResourceScheduler.force_resume: self.is_paused = False,
\* self.feeding_event.set()
ForceResume == [is_paused |-> FALSE, feeding_event |-> TRUE]

\* crawl_from_csv_async: force_resume() after the sleep.
AdmForceResume ==
    /\ adm_pc = "sleeping"
    /\ is_paused' = ForceResume.is_paused
    /\ feeding_event' = ForceResume.feeding_event
    /\ adm_pc' = "next"
    /\ last_op' = "force_resume"
    /\ was_paused' = is_paused
    /\ UNCHANGED <<since_check, metrics, jpc, waited, paused_dispatch, early_dispatch>>
    /\ UNCHANGED outsideAdm

\* crawl_from_csv_async: no resources were read, or memory is not above 95%.
AdmNoOverride ==
    /\ adm_pc = "check"
    /\ adm_pc' = "next"
    /\ last_op' = "other"
    /\ was_paused' = is_paused
    /\ UNCHANGED <<is_paused, feeding_event, since_check, metrics, jpc, waited,
                   paused_dispatch, early_dispatch>>
    /\ UNCHANGED outsideAdm

\* crawl_from_csv_async: the next iteration of the batch loop, with a new batch of
\* addresses, or the end of the loop.
AdmNextBatch ==
    /\ adm_pc = "next"
    /\ \E more \in BOOLEAN :
          IF more
          THEN /\ adm_pc' = "batch"
               /\ jpc' = [j \in AdmJobIds |-> "pending"]
               /\ waited' = [j \in AdmJobIds |-> 0]
          ELSE /\ adm_pc' = "finished"
               /\ UNCHANGED <<jpc, waited>>
    /\ last_op' = "other"
    /\ was_paused' = is_paused
    /\ UNCHANGED <<is_paused, feeding_event, since_check, metrics,
                   paused_dispatch, early_dispatch>>
    /\ UNCHANGED outsideAdm

\* The load of the machine changes: one of the metrics takes another value.
AdmMetricsChange ==
    /\ adm_pc # "finished"
    /\ \/ \E m \in MemLevels \ {metrics.mem} : metrics' = [metrics EXCEPT !.mem = m]
       \/ \E c \in CpuLevels \ {metrics.cpu} : metrics' = [metrics EXCEPT !.cpu = c]
       \/ \E l \in LoadLevels \ {metrics.load} : metrics' = [metrics EXCEPT !.load = l]
    /\ last_op' = "other"
    /\ was_paused' = is_paused
    /\ UNCHANGED <<is_paused, feeding_event, since_check, jpc, waited, adm_pc,
                   paused_dispatch, early_dispatch>>
    /\ UNCHANGED outsideAdm

\* Time passes.
AdmTick ==
    /\ adm_pc # "finished"
    /\ since_check' = IF since_check < CheckInterval THEN since_check + 1 ELSE since_check
    /\ waited' = [j \in AdmJobIds |->
                     IF jpc[j] = "waiting" /\ waited[j] < WaitTicks
                     THEN waited[j] + 1 ELSE waited[j]]
    /\ last_op' = "other"
    /\ was_paused' = is_paused
    /\ UNCHANGED <<is_paused, feeding_event, metrics, jpc, adm_pc,
                   paused_dispatch, early_dispatch>>
    /\ UNCHANGED outsideAdm

AdmNext ==
    \/ \E j \in AdmJobIds : JobAdmitCheckSkipped(j)
    \/ \E j \in AdmJobIds : JobAdmitNoResources(j)
    \/ \E j \in AdmJobIds : JobAdmitSampled(j)
    \/ \E j \in AdmJobIds : JobWaitReturns(j)
    \/ \E j \in AdmJobIds : JobDone(j)
    \/ AdmBatchDone
    \/ AdmForcePause
    \/ AdmForceResume
    \/ AdmNoOverride
    \/ AdmNextBatch
    \/ AdmMetricsChange
    \/ AdmTick

\* ------------------------------------------------------------------------
\* The retry decision on a first result: SimplePOICrawler.process_results
\* (poi_crawler_simple.py) and TurboWorker.process_task (parallel_poi_crawler_turbo.py)
\* ------------------------------------------------------------------------
\* ChromeWorker.crawl_poi_info: its answers, as [status, result_type, poi_count,
\* is_building]; the last one is the except branch of ChromeWorker.process_task.
SimpleCrawlAnswers ==
    {[status |-> "success", result_type |-> "invalid_address", poi_count |-> 0, is_building |-> FALSE],
     [status |-> "success", result_type |-> "hotel_category_page", poi_count |-> 0, is_building |-> FALSE],
     [status |-> "success", result_type |-> "building_with_poi", poi_count |-> 1, is_building |-> TRUE],
     [status |-> "success", result_type |-> "building_no_poi", poi_count |-> 0, is_building |-> TRUE],
     [status |-> "success", result_type |-> "not_building", poi_count |-> 0, is_building |-> FALSE],
     [status |-> "error", result_type |-> "timeout_error", poi_count |-> 0, is_building |-> FALSE],
     [status |-> "error", result_type |-> "processing_error", poi_count |-> 0, is_building |-> FALSE],
     [status |-> "error", result_type |-> "exception_error", poi_count |-> 0, is_building |-> FALSE]}

\* ParallelPOICrawler._crawl_poi_info_turbo: its answers. An answer without a
\* result_type is named as TurboWorker.process_task names it.
TurboCrawlAnswers ==
    {[status |-> "success", result_type |-> "hotel_category_page", poi_count |-> 0, is_building |-> FALSE],
     [status |-> "success", result_type |-> "column_error", poi_count |-> 0, is_building |-> TRUE],
     [status |-> "success", result_type |-> "data_found", poi_count |-> 1, is_building |-> TRUE],
     [status |-> "error", result_type |-> "no_data", poi_count |-> 0, is_building |-> TRUE],
     [status |-> "success", result_type |-> "no_poi_data", poi_count |-> 0, is_building |-> TRUE],
     [status |-> "success", result_type |-> "no_poi_data", poi_count |-> 0, is_building |-> FALSE],
     [status |-> "error", result_type |-> "no_data", poi_count |-> 0, is_building |-> FALSE]}

\* The tasks a decision is taken on: the main tasks of load_addresses_from_csv and
\* the retry tasks of process_results (simple); address_obj with 'primary' and
\* 'secondary' (turbo).
DecisionTasks ==
    {[address |-> a, original_address |-> o, is_retry |-> FALSE] :
        a \in {Formatted} \cup Addresses, o \in Addresses \cup {None}}
    \cup {[address |-> o, original_address |-> o, is_retry |-> TRUE] : o \in Addresses}

\* ChromeWorker.process_task: the result dict of a task and an answer.
DecisionResult(task, answer) ==
    [success |-> (answer.status = "success"), status |-> answer.status,
     result_type |-> answer.result_type, poi_count |-> answer.poi_count,
     is_building |-> answer.is_building, address |-> task.address,
     original_address |-> task.original_address, is_retry |-> task.is_retry]

NoDecision == DecisionResult([address |-> None, original_address |-> None, is_retry |-> FALSE],
                             [status |-> "none", result_type |-> "none", poi_count |-> 0,
                              is_building |-> FALSE])

\* TurboWorker.process_task: should_retry and the test of address_obj['secondary'].
TurboShouldRetry(result) ==
    /\ ~result.is_building
    /\ result.poi_count = 0
    /\ result.status # "hotel_category_page_skipped"
    /\ result.original_address # None

RetryInit ==
    /\ rd_variant = "none"
    /\ rd_result = NoDecision
    /\ rd_decision = FALSE

RetryIdle == RetryInit

\* SimplePOICrawler.process_results: the retry condition on one result.
RdSimpleDecide ==
    \E task \in DecisionTasks, answer \in SimpleCrawlAnswers, cache \in SUBSET Addresses :
        /\ rd_variant' = "simple"
        /\ rd_result' = DecisionResult(task, answer)
        /\ rd_decision' = ShouldRetry(DecisionResult(task, answer), cache)
        /\ UNCHANGED outsideRetry

\* TurboWorker.process_task: the retry condition on the result of the primary address.
RdTurboDecide ==
    \E task \in DecisionTasks, answer \in TurboCrawlAnswers :
        /\ ~task.is_retry
        /\ rd_variant' = "turbo"
        /\ rd_result' = DecisionResult(task, answer)
        /\ rd_decision' = TurboShouldRetry(DecisionResult(task, answer))
        /\ UNCHANGED outsideRetry

RetryNext ==
    \/ RdSimpleDecide
    \/ RdTurboDecide

\* ------------------------------------------------------------------------
\* The progress file under a crash: SimplePOICrawler._save_progress,
\* ParallelPOICrawler._save_progress_async (turbo), ParallelPOICrawler._save_progress (hybrid)
\* ------------------------------------------------------------------------
RecordLen == 2       \* write() calls json.dump makes for one record
MaxProgress == 4     \* records saved by one sequence of runs

CkVariants == {"simple", "turbo", "hybrid"}

\* No file, or a file of zero bytes as open(path, 'w') leaves it: _load_progress
\* gets no record from either.
NoFile == [value |-> None, len |-> 0]

\* The file after json.dump has written the whole record and the file was closed.
CompleteRecord(value) == [value |-> value, len |-> RecordLen]

IsComplete(file) == file.value # None /\ file.len = RecordLen

\* turbo writes the temp file; simple and hybrid write the progress file itself.
WritesInPlace(variant) == variant \in {"simple", "hybrid"}

CkptInit ==
    /\ ck_variant \in CkVariants
    /\ ck_file = NoFile
    /\ ck_tmp = NoFile
    /\ ck_pc = "idle"
    /\ ck_new = 0
    /\ ck_old = NoFile
    /\ ck_crashed = FALSE

CkptIdle ==
    /\ ck_variant = "none"
    /\ ck_file = NoFile
    /\ ck_tmp = NoFile
    /\ ck_pc = "idle"
    /\ ck_new = 0
    /\ ck_old = NoFile
    /\ ck_crashed = FALSE

\* with open(..., 'w') as f: the target is created or truncated.
CkSaveOpen ==
    /\ ~ck_crashed
    /\ ck_pc = "idle"
    /\ ck_new < MaxProgress
    /\ ck_new' = ck_new + 1
    /\ ck_old' = ck_file
    /\ IF WritesInPlace(ck_variant)
          THEN ck_file' = NoFile /\ UNCHANGED ck_tmp
          ELSE ck_tmp' = NoFile /\ UNCHANGED ck_file
    /\ ck_pc' = "writing"
    /\ UNCHANGED <<ck_variant, ck_crashed>>
    /\ UNCHANGED outsideCkpt

\* json.dump(progress_data, f): one write() of the record reaches the file.
CkSaveWrite ==
    /\ ~ck_crashed
    /\ ck_pc = "writing"
    /\ IF WritesInPlace(ck_variant)
          THEN /\ ck_file.len < RecordLen
               /\ ck_file' = [value |-> ck_new, len |-> ck_file.len + 1]
               /\ UNCHANGED ck_tmp
          ELSE /\ ck_tmp.len < RecordLen
               /\ ck_tmp' = [value |-> ck_new, len |-> ck_tmp.len + 1]
               /\ UNCHANGED ck_file
    /\ UNCHANGED <<ck_variant, ck_pc, ck_new, ck_old, ck_crashed>>
    /\ UNCHANGED outsideCkpt

\* The end of the with block: the file is closed with the whole record in it.
CkSaveClose ==
    /\ ~ck_crashed
    /\ ck_pc = "writing"
    /\ IF WritesInPlace(ck_variant)
          THEN ck_file.len = RecordLen /\ ck_pc' = "idle"
          ELSE ck_tmp.len = RecordLen /\ ck_pc' = "rename"
    /\ UNCHANGED <<ck_variant, ck_file, ck_tmp, ck_new, ck_old, ck_crashed>>
    /\ UNCHANGED outsideCkpt

\* os.rename(temp_file, self.progress_file) of _save_progress_async.
CkSaveRename ==
    /\ ~ck_crashed
    /\ ck_pc = "rename"
    /\ ck_file' = ck_tmp
    /\ ck_tmp' = NoFile
    /\ ck_pc' = "idle"
    /\ UNCHANGED <<ck_variant, ck_new, ck_old, ck_crashed>>
    /\ UNCHANGED outsideCkpt

\* The process is killed inside a save (kill -9, power loss): no except branch
\* runs, the files stay as they are.
CkCrash ==
    /\ ~ck_crashed
    /\ ck_pc # "idle"
    /\ ck_crashed' = TRUE
    /\ UNCHANGED <<ck_variant, ck_file, ck_tmp, ck_pc, ck_new, ck_old>>
    /\ UNCHANGED outsideCkpt

\* The next run: _load_progress reads the file; a file json.load cannot parse
\* gives no progress and the run starts from the beginning.
CkRestart ==
    /\ ck_crashed
    /\ ck_crashed' = FALSE
    /\ ck_pc' = "idle"
    /\ ck_new' = IF IsComplete(ck_file) THEN ck_file.value ELSE 0
    /\ UNCHANGED <<ck_variant, ck_file, ck_tmp, ck_old>>
    /\ UNCHANGED outsideCkpt

CkptNext ==
    \/ CkSaveOpen
    \/ CkSaveWrite
    \/ CkSaveClose
    \/ CkSaveRename
    \/ CkCrash
    \/ CkRestart

\* ------------------------------------------------------------------------
\* Writes under Ctrl+C: ResultBuffer (add_result, auto_flush, _flush_to_disk,
\* final_flush), process_results, _save_progress, _finalize_file_processing
\* ------------------------------------------------------------------------
IwResults == 3       \* results of the run
IwBatchSize == 2     \* ResultBuffer.batch_size
IwSaveEvery == 2     \* process_results saves the progress every 10 processed tasks

\* What a write that happens now adds to the history.
LateWrite(file) == IF iw_flag /\ iw_late = "none" THEN file ELSE iw_late

InterruptWriteInit ==
    /\ iw_flag = FALSE
    /\ iw_results = IwResults
    /\ iw_buffer = 0
    /\ iw_lock = "free"
    /\ iw_processed = 0
    /\ iw_cpc = "loop"
    /\ iw_apc = "sleep"
    /\ iw_mpc = "wait"
    /\ iw_late = "none"

InterruptWriteIdle ==
    /\ iw_flag = FALSE
    /\ iw_results = 0
    /\ iw_buffer = 0
    /\ iw_lock = "free"
    /\ iw_processed = 0
    /\ iw_cpc = "loop"
    /\ iw_apc = "sleep"
    /\ iw_mpc = "wait"
    /\ iw_late = "none"

\* process_results: the interrupt check of the loop, result_queue.get, then
\* add_result up to the lock: a result without POI data is skipped.
IwCollectorGet ==
    /\ iw_cpc = "loop"
    /\ IF iw_flag
       THEN /\ iw_cpc' = "exited"
            /\ UNCHANGED iw_results
       ELSE /\ iw_results > 0
            /\ iw_results' = iw_results - 1
            /\ \E has_data \in BOOLEAN :
                  iw_cpc' = IF has_data THEN "add" ELSE "count"
    /\ UNCHANGED <<iw_flag, iw_buffer, iw_lock, iw_processed, iw_apc, iw_mpc, iw_late>>
    /\ UNCHANGED outsideInterruptWrite

\* add_result: with self.lock: buffer.append(data); at batch_size _flush_to_disk
\* tests the interrupt flag and goes on to the write.
IwAddResult ==
    /\ iw_cpc = "add"
    /\ iw_lock = "free"
    /\ IF iw_buffer + 1 >= IwBatchSize /\ ~iw_flag
       THEN /\ iw_lock' = "collector"
            /\ iw_cpc' = "flush_write"
       ELSE /\ iw_cpc' = "count"
            /\ UNCHANGED iw_lock
    /\ iw_buffer' = iw_buffer + 1
    /\ UNCHANGED <<iw_flag, iw_results, iw_processed, iw_apc, iw_mpc, iw_late>>
    /\ UNCHANGED outsideInterruptWrite

\* _flush_to_disk called by add_result: combined_df.to_csv(mode='a'), buffer = [].
IwCollectorFlush ==
    /\ iw_cpc = "flush_write"
    /\ iw_late' = LateWrite("output")
    /\ iw_buffer' = 0
    /\ iw_lock' = "free"
    /\ iw_cpc' = "count"
    /\ UNCHANGED <<iw_flag, iw_results, iw_processed, iw_apc, iw_mpc>>
    /\ UNCHANGED outsideInterruptWrite

\* process_results: processed_tasks += 1; every IwSaveEvery tasks, unless
\* interrupted, _save_progress, which tests the flag again before it writes.
IwCount ==
    /\ iw_cpc = "count"
    /\ iw_processed' = iw_processed + 1
    /\ iw_cpc' = IF (iw_processed + 1) % IwSaveEvery = 0 /\ ~iw_flag
                 THEN "save_write" ELSE "loop"
    /\ UNCHANGED <<iw_flag, iw_results, iw_buffer, iw_lock, iw_apc, iw_mpc, iw_late>>
    /\ UNCHANGED outsideInterruptWrite

\* _save_progress called by process_results: open(progress_file, 'w'), json.dump.
IwCollectorSave ==
    /\ iw_cpc = "save_write"
    /\ iw_late' = LateWrite("progress")
    /\ iw_cpc' = "loop"
    /\ UNCHANGED <<iw_flag, iw_results, iw_buffer, iw_lock, iw_processed, iw_apc, iw_mpc>>
    /\ UNCHANGED outsideInterruptWrite

\* auto_flush: after the sleep, with self.lock: a non-empty buffer is flushed;
\* _flush_to_disk tests the interrupt flag.
IwAutoFlushCheck ==
    /\ iw_apc = "sleep"
    /\ iw_lock = "free"
    /\ iw_buffer > 0
    /\ ~iw_flag
    /\ iw_lock' = "auto"
    /\ iw_apc' = "flush_write"
    /\ UNCHANGED <<iw_flag, iw_results, iw_buffer, iw_processed, iw_cpc, iw_mpc, iw_late>>
    /\ UNCHANGED outsideInterruptWrite

\* _flush_to_disk called by auto_flush: the write.
IwAutoFlushWrite ==
    /\ iw_apc = "flush_write"
    /\ iw_late' = LateWrite("output")
    /\ iw_buffer' = 0
    /\ iw_lock' = "free"
    /\ iw_apc' = "sleep"
    /\ UNCHANGED <<iw_flag, iw_results, iw_processed, iw_cpc, iw_mpc>>
    /\ UNCHANGED outsideInterruptWrite

\* process_single_file: the queues are empty; final_flush takes the lock and tests
\* the buffer and the interrupt flag.
IwFinalFlushCheck ==
    /\ iw_mpc = "wait"
    /\ iw_results = 0
    /\ iw_lock = "free"
    /\ IF iw_buffer > 0 /\ ~iw_flag
       THEN /\ iw_lock' = "main"
            /\ iw_mpc' = "flush_write"
       ELSE /\ iw_mpc' = "finalize"
            /\ UNCHANGED iw_lock
    /\ UNCHANGED <<iw_flag, iw_results, iw_buffer, iw_processed, iw_cpc, iw_apc, iw_late>>
    /\ UNCHANGED outsideInterruptWrite

\* _flush_to_disk called by final_flush: the write.
IwFinalFlushWrite ==
    /\ iw_mpc = "flush_write"
    /\ iw_late' = LateWrite("output")
    /\ iw_buffer' = 0
    /\ iw_lock' = "free"
    /\ iw_mpc' = "finalize"
    /\ UNCHANGED <<iw_flag, iw_results, iw_processed, iw_cpc, iw_apc>>
    /\ UNCHANGED outsideInterruptWrite

\* _finalize_file_processing: if not interrupted, _save_progress (which tests the
\* flag again).
IwFinalizeCheck ==
    /\ iw_mpc = "finalize"
    /\ iw_mpc' = IF iw_flag THEN "done" ELSE "save_write"
    /\ UNCHANGED <<iw_flag, iw_results, iw_buffer, iw_lock, iw_processed, iw_cpc, iw_apc, iw_late>>
    /\ UNCHANGED outsideInterruptWrite

\* _save_progress called by _finalize_file_processing: the write.
IwFinalSave ==
    /\ iw_mpc = "save_write"
    /\ iw_late' = LateWrite("progress")
    /\ iw_mpc' = "done"
    /\ UNCHANGED <<iw_flag, iw_results, iw_buffer, iw_lock, iw_processed, iw_cpc, iw_apc>>
    /\ UNCHANGED outsideInterruptWrite

\* signal_handler: interrupt_flag.set(). It runs in the main thread between two
\* bytecodes, while the other threads go on.
IwInterrupt ==
    /\ ~iw_flag
    /\ iw_mpc # "done"
    /\ iw_flag' = TRUE
    /\ UNCHANGED <<iw_results, iw_buffer, iw_lock, iw_processed, iw_cpc, iw_apc, iw_mpc, iw_late>>
    /\ UNCHANGED outsideInterruptWrite

InterruptWriteNext ==
    \/ IwCollectorGet
    \/ IwAddResult
    \/ IwCollectorFlush
    \/ IwCount
    \/ IwCollectorSave
    \/ IwAutoFlushCheck
    \/ IwAutoFlushWrite
    \/ IwFinalFlushCheck
    \/ IwFinalFlushWrite
    \/ IwFinalizeCheck
    \/ IwFinalSave
    \/ IwInterrupt

\* ------------------------------------------------------------------------
\* parallel_poi_crawler_turbo.py: TurboWorker.run on ChromeDriverPool
\* ------------------------------------------------------------------------
TwJobs == 3             \* tasks of the run
MaxAcquireTries == 3    \* for retry_attempt in range(3)

TwIndices == 0..(TwJobs - 1)

\* A worker whose thread would end with the error of a task.
AfterJobErrorExit == "crashed"

\* TurboWorker.run: where the loop goes on after a task whose result is an error
\* (the end of the try block or of the except branch: the next iteration).
AfterJobError == "idle"

TurboInit ==
    /\ tw_queue = [k \in 1..TwJobs |-> k - 1]
    /\ tw_stop = FALSE
    /\ tw_pc = [w \in PoolWorkerIds |-> "idle"]
    /\ tw_task = [w \in PoolWorkerIds |-> None]
    /\ tw_tries = [w \in PoolWorkerIds |-> 0]
    /\ tw_outcome = [j \in TwIndices |-> {}]
    /\ driver_jobs = [d \in HandleIds |-> 0]
    /\ tw_errored = {}
    /\ tw_failed = {}
    /\ tw_err = [w \in PoolWorkerIds |-> "none"]

TurboIdle ==
    /\ tw_queue = <<>>
    /\ tw_stop = FALSE
    /\ tw_pc = [w \in PoolWorkerIds |-> "idle"]
    /\ tw_task = [w \in PoolWorkerIds |-> None]
    /\ tw_tries = [w \in PoolWorkerIds |-> 0]
    /\ tw_outcome = [j \in TwIndices |-> {}]
    /\ driver_jobs = [d \in HandleIds |-> 0]
    /\ tw_errored = {}
    /\ tw_failed = {}
    /\ tw_err = [w \in PoolWorkerIds |-> "none"]

\* The history after worker w has finished a task with the given outcome.
ErrAfter(w, failed) ==
    [tw_err EXCEPT ![w] = IF failed THEN "error"
                          ELSE IF @ = "error" THEN "recovered" ELSE @]

\* TurboWorker.run: task_scheduler.get_task() returns a task.
TwGetTask(w) ==
    /\ tw_pc[w] = "idle"
    /\ ~tw_stop
    /\ tw_queue # <<>>
    /\ tw_task' = [tw_task EXCEPT ![w] = Head(tw_queue)]
    /\ tw_queue' = Tail(tw_queue)
    /\ tw_pc' = [tw_pc EXCEPT ![w] = IF current_driver[w] = None THEN "acquire" ELSE "process"]
    /\ tw_tries' = [tw_tries EXCEPT ![w] = 0]
    /\ UNCHANGED <<tw_stop, tw_outcome, driver_jobs, tw_errored, tw_failed, tw_err>>
    /\ UNCHANGED poolVars
    /\ UNCHANGED outsideTurbo

\* TurboWorker.run: one get_driver of the retry loop; after the third None the
\* task gets failed_result ('driver_pool_exhausted_after_retry') and is given up.
TwAcquire(w) ==
    /\ tw_pc[w] = "acquire"
    /\ GetDriver(w)
    /\ IF current_driver'[w] # None
       THEN /\ tw_pc' = [tw_pc EXCEPT ![w] = "process"]
            /\ tw_tries' = [tw_tries EXCEPT ![w] = 0]
            /\ UNCHANGED <<tw_task, tw_outcome>>
       ELSE IF tw_tries[w] + 1 < MaxAcquireTries
       THEN /\ tw_tries' = [tw_tries EXCEPT ![w] = @ + 1]
            /\ UNCHANGED <<tw_pc, tw_task, tw_outcome>>
       ELSE /\ tw_outcome' = [tw_outcome EXCEPT ![tw_task[w]] = @ \cup {"pool_exhausted"}]
            /\ tw_task' = [tw_task EXCEPT ![w] = None]
            /\ tw_tries' = [tw_tries EXCEPT ![w] = 0]
            /\ tw_pc' = [tw_pc EXCEPT ![w] = "idle"]
    /\ UNCHANGED <<tw_queue, tw_stop, driver_jobs, tw_errored, tw_failed, tw_err>>
    /\ UNCHANGED outsideTurbo

\* TurboWorker.run: create_optimized_driver raises inside get_driver, which is
\* called outside the try block: the exception ends the thread.
TwAcquireCreateFails(w) ==
    /\ tw_pc[w] = "acquire"
    /\ GetDriverCreateFails(w)
    /\ tw_pc' = [tw_pc EXCEPT ![w] = "dead"]
    /\ UNCHANGED <<tw_queue, tw_stop, tw_task, tw_tries, tw_outcome, driver_jobs,
                   tw_errored, tw_failed, tw_err>>
    /\ UNCHANGED outsideTurbo

\* TurboWorker.run: process_task returns a success; put_result, then
\* increment_driver_usage and, when it asks for it, restart_driver.
TwProcessSuccess(w) ==
    /\ tw_pc[w] = "process"
    /\ TaskDone(w)
    /\ tw_outcome' = [tw_outcome EXCEPT ![tw_task[w]] = @ \cup {"success"}]
    /\ driver_jobs' = [driver_jobs EXCEPT ![current_driver[w]] = @ + 1]
    /\ tw_err' = ErrAfter(w, FALSE)
    /\ tw_task' = [tw_task EXCEPT ![w] = None]
    /\ tw_pc' = [tw_pc EXCEPT ![w] = "idle"]
    /\ UNCHANGED <<tw_queue, tw_stop, tw_tries, tw_errored, tw_failed>>
    /\ UNCHANGED outsideTurbo

\* TurboWorker.run: the driver raises inside _crawl_poi_info_turbo (page load
\* timeout, lost session), which catches it and returns status 'error':
\* process_task returns success False, nothing is raised, and the lifecycle check
\* is skipped because result['success'] is false. The browser may be dead now.
TwProcessError(w) ==
    /\ tw_pc[w] = "process"
    /\ tw_outcome' = [tw_outcome EXCEPT ![tw_task[w]] = @ \cup {"error"}]
    /\ driver_jobs' = [driver_jobs EXCEPT ![current_driver[w]] = @ + 1]
    /\ tw_errored' = tw_errored \cup {current_driver[w]}
    /\ tw_failed' = tw_failed \cup {tw_task[w]}
    /\ \E dies \in BOOLEAN :
          healthy' = IF dies THEN healthy \ {current_driver[w]} ELSE healthy
    /\ tw_err' = ErrAfter(w, TRUE)
    /\ tw_task' = [tw_task EXCEPT ![w] = None]
    /\ tw_pc' = [tw_pc EXCEPT ![w] = AfterJobError]
    /\ UNCHANGED <<tw_queue, tw_stop, tw_tries>>
    /\ UNCHANGED <<pool, total_created, driver_usage_count, current_driver, live,
                   released, handles_made, last_release>>
    /\ UNCHANGED outsideTurbo

\* TurboWorker.run: the result was put, restart_driver raises in
\* create_optimized_driver; the except branch puts error_result for the same task
\* and releases the driver.
TwRestartFails(w) ==
    /\ tw_pc[w] = "process"
    /\ RestartCreateFails(w)
    /\ UNCHANGED last_release
    /\ tw_outcome' = [tw_outcome EXCEPT ![tw_task[w]] = @ \cup {"success", "error"}]
    /\ driver_jobs' = [driver_jobs EXCEPT ![current_driver[w]] = @ + 1]
    /\ tw_errored' = tw_errored \cup {current_driver[w]}
    /\ tw_failed' = tw_failed \cup {tw_task[w]}
    /\ tw_err' = ErrAfter(w, TRUE)
    /\ tw_task' = [tw_task EXCEPT ![w] = None]
    /\ tw_pc' = [tw_pc EXCEPT ![w] = AfterJobError]
    /\ UNCHANGED <<tw_queue, tw_stop, tw_tries>>
    /\ UNCHANGED outsideTurbo

\* The main thread has collected a result for every task: scheduler.stop().
TwStop ==
    /\ ~tw_stop
    /\ \A j \in TwIndices : tw_outcome[j] # {}
    /\ tw_stop' = TRUE
    /\ UNCHANGED <<tw_queue, tw_pc, tw_task, tw_tries, tw_outcome, driver_jobs,
                   tw_errored, tw_failed, tw_err>>
    /\ UNCHANGED poolVars
    /\ UNCHANGED outsideTurbo

\* TurboWorker.run: the loop ends on stop_event; the driver is released.
TwExit(w) ==
    /\ tw_pc[w] = "idle"
    /\ tw_stop
    /\ IF current_driver[w] # None
       THEN ReleaseDriver(w) /\ UNCHANGED last_release
       ELSE UNCHANGED poolVars
    /\ tw_pc' = [tw_pc EXCEPT ![w] = "exited"]
    /\ UNCHANGED <<tw_queue, tw_stop, tw_task, tw_tries, tw_outcome, driver_jobs,
                   tw_errored, tw_failed, tw_err>>
    /\ UNCHANGED outsideTurbo

TurboNext ==
    \/ \E w \in PoolWorkerIds : TwGetTask(w)
    \/ \E w \in PoolWorkerIds : TwAcquire(w)
    \/ \E w \in PoolWorkerIds : TwAcquireCreateFails(w)
    \/ \E w \in PoolWorkerIds : TwProcessSuccess(w)
    \/ \E w \in PoolWorkerIds : TwProcessError(w)
    \/ \E w \in PoolWorkerIds : TwRestartFails(w)
    \/ TwStop
    \/ \E w \in PoolWorkerIds : TwExit(w)

\* ------------------------------------------------------------------------
\* parallel_poi_crawler_turbo.py: the end of crawl_from_csv_async and
\* AsyncDataSaveManager.stop against the loop of save_worker_process
\* ------------------------------------------------------------------------
StopBatches == 3     \* batches crawl_from_csv_async submits in one run
StopQueueSize == 2   \* AsyncDataSaveManager max_queue_size

StopMarker == 0      \* the string "STOP" on the save queue
StopBatchIds == 1..StopBatches

SinkStopInit ==
    /\ st_queue = <<>>
    /\ st_stop_event = FALSE
    /\ st_wpc = "check"
    /\ st_batch = None
    /\ st_written = {}
    /\ st_mpc = "run"
    /\ st_next = 1
    /\ st_accepted = {}

SinkStopIdle ==
    /\ st_queue = <<>>
    /\ st_stop_event = FALSE
    /\ st_wpc = "idle"
    /\ st_batch = None
    /\ st_written = {}
    /\ st_mpc = "idle"
    /\ st_next = 1
    /\ st_accepted = {}

\* crawl_from_csv_async: save_manager.save_batch_async(batch_data) in the loop over
\* the batches or after it; the put succeeds when the queue has room.
StSubmit ==
    /\ st_mpc = "run"
    /\ st_next <= StopBatches
    /\ st_next' = st_next + 1
    /\ IF Len(st_queue) < StopQueueSize
       THEN /\ st_queue' = Append(st_queue, st_next)
            /\ st_accepted' = st_accepted \cup {st_next}
       ELSE UNCHANGED <<st_queue, st_accepted>>
    /\ UNCHANGED <<st_stop_event, st_wpc, st_batch, st_written, st_mpc>>
    /\ UNCHANGED outsideSinkStop

\* crawl_from_csv_async: the loop is over, the last batch submitted; the wait for
\* the queue to drain begins.
StLoopEnds ==
    /\ st_mpc = "run"
    /\ st_next > StopBatches
    /\ st_mpc' = "drain"
    /\ UNCHANGED <<st_queue, st_stop_event, st_wpc, st_batch, st_written, st_next,
                   st_accepted>>
    /\ UNCHANGED outsideSinkStop

\* crawl_from_csv_async: an exception or the cancellation of the coroutine (Ctrl+C)
\* inside the try block goes straight to the finally block.
StLoopRaises ==
    /\ st_mpc = "run"
    /\ st_mpc' = "put_stop"
    /\ UNCHANGED <<st_queue, st_stop_event, st_wpc, st_batch, st_written, st_next,
                   st_accepted>>
    /\ UNCHANGED outsideSinkStop

\* crawl_from_csv_async: while get_queue_size() > 0 and timeout_count < 30; the
\* wait ends when the queue is empty or after 30 rounds of 2 s.
StDrainEnds ==
    /\ st_mpc = "drain"
    /\ st_mpc' = "put_stop"
    /\ UNCHANGED <<st_queue, st_stop_event, st_wpc, st_batch, st_written, st_next,
                   st_accepted>>
    /\ UNCHANGED outsideSinkStop

\* AsyncDataSaveManager.stop: self.save_queue.put("STOP", timeout=2.0); a full
\* queue raises queue.Full, which the except branch of stop only reports.
StPutStop ==
    /\ st_mpc = "put_stop"
    /\ IF Len(st_queue) < StopQueueSize
       THEN /\ st_queue' = Append(st_queue, StopMarker)
            /\ st_mpc' = "set_event"
       ELSE /\ st_mpc' = "done"
            /\ UNCHANGED st_queue
    /\ UNCHANGED <<st_stop_event, st_wpc, st_batch, st_written, st_next, st_accepted>>
    /\ UNCHANGED outsideSinkStop

\* AsyncDataSaveManager.stop: self.stop_event.set()
StSetEvent ==
    /\ st_mpc = "set_event"
    /\ st_stop_event' = TRUE
    /\ st_mpc' = "join"
    /\ UNCHANGED <<st_queue, st_wpc, st_batch, st_written, st_next, st_accepted>>
    /\ UNCHANGED outsideSinkStop

\* AsyncDataSaveManager.stop: save_process.join(timeout) returns because the
\* process has ended.
StJoin ==
    /\ st_mpc = "join"
    /\ st_wpc = "exited"
    /\ st_mpc' = "done"
    /\ UNCHANGED <<st_queue, st_stop_event, st_wpc, st_batch, st_written, st_next,
                   st_accepted>>
    /\ UNCHANGED outsideSinkStop

\* AsyncDataSaveManager.stop: the process is still alive after the 10 s of the
\* join, which takes a batch whose processing lasts that long (the get waits 1 s
\* at most): save_process.terminate().
StTerminate ==
    /\ st_mpc = "join"
    /\ st_wpc = "write"
    /\ st_mpc' = "done"
    /\ st_wpc' = "exited"
    /\ UNCHANGED <<st_queue, st_stop_event, st_batch, st_written, st_next, st_accepted>>
    /\ UNCHANGED outsideSinkStop

\* save_worker_process: while not stop_event.is_set()
StWorkerCheck ==
    /\ st_wpc = "check"
    /\ st_wpc' = IF st_stop_event THEN "exited" ELSE "get"
    /\ UNCHANGED <<st_queue, st_stop_event, st_batch, st_written, st_mpc, st_next,
                   st_accepted>>
    /\ UNCHANGED outsideSinkStop

\* save_worker_process: save_queue.get(timeout=1.0); "STOP" breaks the loop, an
\* empty queue raises queue.Empty and the loop continues.
StWorkerGet ==
    /\ st_wpc = "get"
    /\ IF st_queue = <<>>
       THEN /\ st_wpc' = "check"
            /\ UNCHANGED <<st_queue, st_batch>>
       ELSE /\ st_queue' = Tail(st_queue)
            /\ IF Head(st_queue) = StopMarker
               THEN /\ st_wpc' = "exited"
                    /\ UNCHANGED st_batch
               ELSE /\ st_wpc' = "write"
                    /\ st_batch' = Head(st_queue)
    /\ UNCHANGED <<st_stop_event, st_written, st_mpc, st_next, st_accepted>>
    /\ UNCHANGED outsideSinkStop

\* save_worker_process: concat, drop_duplicates and to_csv of the batch it holds.
StWorkerWrite ==
    /\ st_wpc = "write"
    /\ st_written' = st_written \cup {st_batch}
    /\ st_batch' = None
    /\ st_wpc' = "check"
    /\ UNCHANGED <<st_queue, st_stop_event, st_mpc, st_next, st_accepted>>
    /\ UNCHANGED outsideSinkStop

SinkStopNext ==
    \/ StSubmit
    \/ StLoopEnds
    \/ StLoopRaises
    \/ StDrainEnds
    \/ StPutStop
    \/ StSetEvent
    \/ StJoin
    \/ StTerminate
    \/ StWorkerCheck
    \/ StWorkerGet
    \/ StWorkerWrite

\* ------------------------------------------------------------------------
\* The detection of windows of failures: _track_no_poi_result and
\* _check_no_poi_batch_warning (hybrid, turbo), process_batch (parallel)
\* ------------------------------------------------------------------------
DiagBatchSize == 5   \* batch_size of _track_no_poi_result, len(addresses_batch)

\* The 'error' of a result as the workers build it: none for a success,
\* '未找到POI数据' ("no_poi_found"), or another message ('处理异常', str(e), a status).
DiagErrors == {"none", "no_poi_found", "other"}

\* The results a worker hands over; chome: the address used matches
\* \d+-ch[ōo]me-\d+-\d+\+\w+ .
DiagResults ==
    {r \in [success : BOOLEAN, error : DiagErrors, chome : BOOLEAN] :
        r.success <=> r.error = "none"}

\* sum(1 for r in batch_results if ...)
CountOf(window, Test(_)) == Cardinality({k \in 1..Len(window) : Test(window[k])})

\* The hybrid test 'no_poi_data' in str(r.get('error', '')) or r['status'] ==
\* 'no_poi_data': the results of HybridWorker.process_task carry no 'status' and
\* none of their error messages holds that text.
MentionsNoPoiData(r) == r.error = "no_poi_data"

\* _check_no_poi_batch_warning of the hybrid crawler: should_warn
HybridShouldWarn(window) ==
    LET success_count == CountOf(window, LAMBDA r : r.success)
        total_count == Len(window)
        no_poi_count == CountOf(window, LAMBDA r : ~r.success /\ MentionsNoPoiData(r))
        chome_format_no_poi ==
            CountOf(window, LAMBDA r : ~r.success /\ r.chome /\ MentionsNoPoiData(r))
    IN \/ success_count = 0 /\ no_poi_count = total_count
       \/ 10 * chome_format_no_poi >= 8 * total_count

\* process_batch of parallel_poi_crawler.py: the test before the warning
ParallelShouldWarn(window) ==
    LET success_count == CountOf(window, LAMBDA r : r.success)
        error_count == CountOf(window, LAMBDA r : ~r.success)
        not_building_count ==
            CountOf(window, LAMBDA r : ~r.success /\ r.error = "no_poi_found")
    IN /\ success_count = 0
       /\ error_count = Len(window)
       /\ not_building_count = Len(window)

DiagInit ==
    /\ dg_variant \in {"hybrid", "turbo", "parallel"}
    /\ dg_window = <<>>
    /\ dg_pc = "collect"
    /\ dg_reported = FALSE

DiagIdle ==
    /\ dg_variant = "none"
    /\ dg_window = <<>>
    /\ dg_pc = "collect"
    /\ dg_reported = FALSE

\* collect_results of the hybrid crawler hands a result to _track_no_poi_result,
\* which checks the window when the result fills it.
HyTrackResult(r) ==
    /\ dg_variant = "hybrid"
    /\ dg_pc = "collect"
    /\ dg_window' = Append(dg_window, r)
    /\ IF Len(dg_window) + 1 >= DiagBatchSize
       THEN /\ dg_pc' = "closed"
            /\ dg_reported' = HybridShouldWarn(dg_window')
       ELSE UNCHANGED <<dg_pc, dg_reported>>
    /\ UNCHANGED dg_variant
    /\ UNCHANGED outsideDiag

\* crawl_from_csv_async of the turbo crawler counts a result of its batch; nothing
\* in the turbo crawler calls _track_no_poi_result.
TurboCountResult(r) ==
    /\ dg_variant = "turbo"
    /\ dg_pc = "collect"
    /\ dg_window' = Append(dg_window, r)
    /\ dg_pc' = IF Len(dg_window) + 1 >= DiagBatchSize THEN "closed" ELSE dg_pc
    /\ UNCHANGED <<dg_variant, dg_reported>>
    /\ UNCHANGED outsideDiag

\* process_batch of parallel_poi_crawler.py collects a result of its workers.
ParCollectResult(r) ==
    /\ dg_variant = "parallel"
    /\ dg_pc = "collect"
    /\ Len(dg_window) < DiagBatchSize
    /\ dg_window' = Append(dg_window, r)
    /\ UNCHANGED <<dg_variant, dg_pc, dg_reported>>
    /\ UNCHANGED outsideDiag

\* process_batch of parallel_poi_crawler.py after the last result of the batch.
ParCheckBatch ==
    /\ dg_variant = "parallel"
    /\ dg_pc = "collect"
    /\ Len(dg_window) = DiagBatchSize
    /\ dg_pc' = "closed"
    /\ dg_reported' = ParallelShouldWarn(dg_window)
    /\ UNCHANGED <<dg_variant, dg_window>>
    /\ UNCHANGED outsideDiag

DiagNext ==
    \/ \E r \in DiagResults : HyTrackResult(r)
    \/ \E r \in DiagResults : TurboCountResult(r)
    \/ \E r \in DiagResults : ParCollectResult(r)
    \/ ParCheckBatch

\* ------------------------------------------------------------------------
\* The feeder: HybridTaskScheduler.feed_tasks moves the backlog into the bounded
\* task queue while the workers of HybridWorker.run take tasks from it, and
\* put a task back when the pool gives them no driver.
\* (TurboTaskScheduler.feed_tasks is the same loop with a put timeout of 0.1 s.)
\* ------------------------------------------------------------------------
FeedJobs == 4

FeedQueueSize == 2

FeedChunk == 2

FeedWorkers == 2

NoFeedTask == 0

FeedJobIds == 1..FeedJobs

FeedWorkerIds == 1..FeedWorkers

\* task_queue.full()
FeedQueueFull == Len(fd_queue) >= FeedQueueSize

FeederInit ==
    /\ fd_pending = [i \in 1..FeedJobs |-> i]
    /\ fd_queue = <<>>
    /\ fd_fpc = "check"
    /\ fd_left = 0
    /\ fd_wtask = [w \in FeedWorkerIds |-> NoFeedTask]
    /\ fd_wdriver = [w \in FeedWorkerIds |-> FALSE]
    /\ fd_results = [j \in FeedJobIds |-> 0]

FeederIdle ==
    /\ fd_pending = <<>>
    /\ fd_queue = <<>>
    /\ fd_fpc = "idle"
    /\ fd_left = 0
    /\ fd_wtask = <<>>
    /\ fd_wdriver = <<>>
    /\ fd_results = <<>>

\* feed_tasks: the while test and "if not self.task_queue.full()"; the for loop
\* is entered with range(min(10, len(pending_tasks))). With a full queue the
\* feeder sleeps and tests again.
FeedCheck ==
    /\ fd_fpc = "check"
    /\ IF fd_pending = <<>>
       THEN fd_fpc' = "done" /\ fd_left' = 0
       ELSE /\ ~FeedQueueFull
            /\ fd_fpc' = "chunk"
            /\ fd_left' = IF Len(fd_pending) < FeedChunk THEN Len(fd_pending) ELSE FeedChunk
    /\ UNCHANGED <<fd_pending, fd_queue, fd_wtask, fd_wdriver, fd_results>>
    /\ UNCHANGED outsideFeeder

\* One iteration of the for loop: popleft, then put(task, timeout=1) finds room.
FeedPut ==
    /\ fd_fpc = "chunk"
    /\ fd_left > 0
    /\ ~FeedQueueFull
    /\ fd_pending' = Tail(fd_pending)
    /\ fd_queue' = Append(fd_queue, Head(fd_pending))
    /\ fd_left' = fd_left - 1
    /\ UNCHANGED <<fd_fpc, fd_wtask, fd_wdriver, fd_results>>
    /\ UNCHANGED outsideFeeder

\* One iteration of the for loop: popleft, then put(task, timeout=1) on a queue
\* that stays full for the timeout raises queue.Full; the bare except sleeps and
\* the while loop goes on. The task that was popped is in neither collection.
FeedPutTimeout ==
    /\ fd_fpc = "chunk"
    /\ fd_left > 0
    /\ FeedQueueFull
    /\ fd_pending' = Tail(fd_pending)
    /\ fd_fpc' = "check"
    /\ fd_left' = 0
    /\ UNCHANGED <<fd_queue, fd_wtask, fd_wdriver, fd_results>>
    /\ UNCHANGED outsideFeeder

\* The for loop has made its iterations; sleep and back to the while test.
FeedChunkEnds ==
    /\ fd_fpc = "chunk"
    /\ fd_left = 0
    /\ fd_fpc' = "check"
    /\ UNCHANGED <<fd_pending, fd_queue, fd_left, fd_wtask, fd_wdriver, fd_results>>
    /\ UNCHANGED outsideFeeder

\* HybridWorker.run: task = get_task() (LifoQueue.get).
FdGetTask(w) ==
    /\ fd_wtask[w] = NoFeedTask
    /\ fd_queue # <<>>
    /\ fd_wtask' = [fd_wtask EXCEPT ![w] = fd_queue[Len(fd_queue)]]
    /\ fd_queue' = SubSeq(fd_queue, 1, Len(fd_queue) - 1)
    /\ UNCHANGED <<fd_pending, fd_fpc, fd_left, fd_wdriver, fd_results>>
    /\ UNCHANGED outsideFeeder

\* HybridWorker.run: current_driver is None and get_driver() returns a driver.
FdGetDriver(w) ==
    /\ fd_wtask[w] # NoFeedTask
    /\ ~fd_wdriver[w]
    /\ fd_wdriver' = [fd_wdriver EXCEPT ![w] = TRUE]
    /\ UNCHANGED <<fd_pending, fd_queue, fd_fpc, fd_left, fd_wtask, fd_results>>
    /\ UNCHANGED outsideFeeder

\* HybridWorker.run: get_driver() returns None (the pool is at max_drivers or the
\* creation failed); task_queue.put(task, timeout=1) finds room.
FdPutBack(w) ==
    /\ fd_wtask[w] # NoFeedTask
    /\ ~fd_wdriver[w]
    /\ ~FeedQueueFull
    /\ fd_queue' = Append(fd_queue, fd_wtask[w])
    /\ fd_wtask' = [fd_wtask EXCEPT ![w] = NoFeedTask]
    /\ UNCHANGED <<fd_pending, fd_fpc, fd_left, fd_wdriver, fd_results>>
    /\ UNCHANGED outsideFeeder

\* HybridWorker.run: get_driver() returns None and the put raises queue.Full
\* after its timeout; "except: pass", sleep, continue with the next get_task().
FdPutBackFull(w) ==
    /\ fd_wtask[w] # NoFeedTask
    /\ ~fd_wdriver[w]
    /\ FeedQueueFull
    /\ fd_wtask' = [fd_wtask EXCEPT ![w] = NoFeedTask]
    /\ UNCHANGED <<fd_pending, fd_queue, fd_fpc, fd_left, fd_wdriver, fd_results>>
    /\ UNCHANGED outsideFeeder

\* HybridWorker.run: process_task and put_result; when process_task raised, the
\* error result is put and the driver is quit and forgotten.
FdProcess(w) ==
    /\ fd_wtask[w] # NoFeedTask
    /\ fd_wdriver[w]
    /\ fd_results' = [fd_results EXCEPT ![fd_wtask[w]] = @ + 1]
    /\ fd_wtask' = [fd_wtask EXCEPT ![w] = NoFeedTask]
    /\ \E raised \in BOOLEAN : fd_wdriver' = [fd_wdriver EXCEPT ![w] = ~raised]
    /\ UNCHANGED <<fd_pending, fd_queue, fd_fpc, fd_left>>
    /\ UNCHANGED outsideFeeder

FeederNext ==
    \/ FeedCheck
    \/ FeedPut
    \/ FeedPutTimeout
    \/ FeedChunkEnds
    \/ \E w \in FeedWorkerIds :
          \/ FdGetTask(w)
          \/ FdGetDriver(w)
          \/ FdPutBack(w)
          \/ FdPutBackFull(w)
          \/ FdProcess(w)

\* ------------------------------------------------------------------------
\* The inputs tried for one job: ParallelPOICrawler.crawl_batch_addresses
\* (parallel_poi_crawler.py), AsyncCrawlWrapper._crawl_with_driver_sync
\* (parallel_poi_crawler_turbo.py), and SimplePOICrawler.process_results with the
\* retry task it queues (poi_crawler_simple.py)
\* ------------------------------------------------------------------------
\* The rows of the CSV with at least one address: FormattedAddress, Address and
\* ConvertedAddress, each a string or empty. Two columns can hold the same string.
CsvRows ==
    {row \in [formatted : Addresses \cup {None}, address : Addresses \cup {None},
              converted : Addresses \cup {None}] :
        row.formatted # None \/ row.address # None \/ row.converted # None}

\* crawl_from_csv / crawl_from_csv_async: address_obj of a row, with the inputs
\* moved up when the row has no FormattedAddress.
LoadAddressObj(row) ==
    IF row.formatted = None /\ row.address # None
    THEN [primary |-> row.address, secondary |-> row.converted, fallback |-> None]
    ELSE IF row.formatted = None /\ row.converted # None
    THEN [primary |-> row.converted, secondary |-> row.address, fallback |-> None]
    ELSE [primary |-> row.formatted, secondary |-> row.address, fallback |-> row.converted]

IsInput(a) == a # None

\* The inputs an address_obj holds, in the order primary, secondary, fallback.
LadderOf(obj) == SelectSeq(<<obj.primary, obj.secondary, obj.fallback>>, IsInput)

\* ParallelPOICrawler._crawl_poi_info (parallel_poi_crawler.py): its answers; the
\* last one stands for an exception of the driver.
ParallelCrawlAnswers ==
    {[status |-> "hotel_category_page_skipped", poi_count |-> 0, is_building |-> FALSE],
     [status |-> "success", poi_count |-> 1, is_building |-> TRUE],
     [status |-> "no_poi_data", poi_count |-> 0, is_building |-> TRUE],
     [status |-> "no_poi_data", poi_count |-> 0, is_building |-> FALSE],
     [status |-> "raised", poi_count |-> 0, is_building |-> FALSE]}

\* should_retry_secondary of crawl_batch_addresses, should_retry of
\* _crawl_with_driver_sync: the condition on the result of the primary address.
ShouldRetrySecondary(result) ==
    /\ result.status # "raised"
    /\ ~result.is_building
    /\ result.poi_count = 0
    /\ result.status # "hotel_category_page_skipped"

\* The calls of _crawl_with_driver_sync with the fallback asked before the
\* secondary address.
TurboAttemptedFallbackFirst(obj, try2, try3) ==
    <<obj.primary>> \o (IF try3 THEN <<obj.fallback>> ELSE <<>>)
                    \o (IF try2 THEN <<obj.secondary>> ELSE <<>>)

\* The calls of _crawl_poi_info_turbo that _crawl_with_driver_sync makes, in their
\* order: the primary address, then the secondary, then the fallback.
TurboAttempted(obj, try2, try3) ==
    <<obj.primary>> \o (IF try2 THEN <<obj.secondary>> ELSE <<>>)
                    \o (IF try3 THEN <<obj.fallback>> ELSE <<>>)

LadderInit ==
    /\ ld_variant = "none"
    /\ ld_ladder = <<>>
    /\ ld_attempted = <<>>
    /\ ld_retryable = FALSE
    /\ ld_outcome = "none"

LadderIdle == LadderInit

\* crawl_batch_addresses for one address_obj: the primary address, then the
\* secondary address when should_retry_secondary; no third attempt. An exception
\* of either call ends in the except branch with a failed result.
LdParallelCrawl ==
    \E row \in CsvRows, a1 \in ParallelCrawlAnswers, a2 \in ParallelCrawlAnswers :
        LET obj == LoadAddressObj(row)
            try2 == ShouldRetrySecondary(a1) /\ obj.secondary # None
            adopt2 == try2 /\ a2.status = "success"
            raised == a1.status = "raised" \/ (try2 /\ a2.status = "raised")
            result == IF adopt2 THEN a2 ELSE a1
        IN
        /\ ld_variant = "none"
        /\ ld_variant' = "parallel"
        /\ ld_ladder' = LadderOf(obj)
        /\ ld_attempted' = <<obj.primary>> \o (IF try2 THEN <<obj.secondary>> ELSE <<>>)
        /\ ld_retryable' = ShouldRetrySecondary(a1)
        /\ ld_outcome' = IF ~raised /\ result.status = "success" /\ result.poi_count > 0
                         THEN "success" ELSE "failure"
        /\ UNCHANGED outsideLadder

\* _crawl_with_driver_sync with a driver: the primary address, the secondary one
\* when should_retry, the fallback one when should_retry is still set; a retry
\* result is taken over when its status is 'success'.
LdTurboCrawl ==
    \E row \in CsvRows, a1 \in TurboCrawlAnswers, a2 \in TurboCrawlAnswers,
       a3 \in TurboCrawlAnswers :
        LET obj == LoadAddressObj(row)
            try2 == ShouldRetrySecondary(a1) /\ obj.secondary # None
            adopt2 == try2 /\ a2.status = "success"
            try3 == ShouldRetrySecondary(a1) /\ ~adopt2 /\ obj.fallback # None
            adopt3 == try3 /\ a3.status = "success"
            result == IF adopt3 THEN a3 ELSE IF adopt2 THEN a2 ELSE a1
        IN
        /\ ld_variant = "none"
        /\ ld_variant' = "turbo"
        /\ ld_ladder' = LadderOf(obj)
        /\ ld_attempted' = TurboAttempted(obj, try2, try3)
        /\ ld_retryable' = ShouldRetrySecondary(a1)
        /\ ld_outcome' = IF result.status = "success" THEN "success" ELSE "failure"
        /\ UNCHANGED outsideLadder

\* The simple crawler on one job: ChromeWorker.process_task on the main task,
\* the retry condition of process_results, ChromeWorker.process_task on the retry
\* task; the job's result is the last one process_results counted.
LdSimpleCrawl ==
    \E job \in JobShapes, a1 \in SimpleCrawlAnswers, a2 \in SimpleCrawlAnswers,
       cache \in SUBSET Addresses :
        LET task == [address |-> job.address, original_address |-> job.original_address,
                     is_retry |-> FALSE]
            r1 == DecisionResult(task, a1)
            retry == ShouldRetry(r1, cache)
            r2 == DecisionResult([address |-> job.original_address,
                                  original_address |-> job.original_address,
                                  is_retry |-> TRUE], a2)
            result == IF retry THEN r2 ELSE r1
        IN
        /\ ld_variant = "none"
        /\ ld_variant' = "simple"
        /\ ld_ladder' = IF LadderLen(job) = 2 THEN <<job.address, job.original_address>>
                        ELSE <<job.address>>
        /\ ld_attempted' = <<job.address>> \o (IF retry THEN <<job.original_address>> ELSE <<>>)
        /\ ld_retryable' = (r1.success /\ r1.result_type = "invalid_address")
        /\ ld_outcome' = IF result.success THEN "success" ELSE "failure"
        /\ UNCHANGED outsideLadder

LadderNext ==
    \/ LdParallelCrawl
    \/ LdTurboCrawl
    \/ LdSimpleCrawl

\* ------------------------------------------------------------------------
\* Writes to the output file that can fail: ResultBuffer._flush_to_disk
\* (poi_crawler_simple.py) and collect_results with
\* ParallelPOICrawler._batch_append_to_output_file (parallel_poi_crawler_hybrid.py)
\* ------------------------------------------------------------------------
WfPayloads == 4

WfBatchSize == 2

WfMaxFailures == 2

WfPayloadIds == 1..WfPayloads

\* The payloads of a list.
WfElems(seq) == {seq[i] : i \in DOMAIN seq}

WriteFailInit ==
    /\ wf_variant \in {"simple", "hybrid"}
    /\ wf_buffer = <<>>
    /\ wf_store = {}
    /\ wf_produced = 0
    /\ wf_failures = 0
    /\ wf_pc = "collect"

WriteFailIdle ==
    /\ wf_variant = "none"
    /\ wf_buffer = <<>>
    /\ wf_store = {}
    /\ wf_produced = 0
    /\ wf_failures = 0
    /\ wf_pc = "idle"

\* to_csv(mode='a') raises or not; a run sees at most WfMaxFailures failures.
WfWriteOutcomes == IF wf_failures < WfMaxFailures THEN BOOLEAN ELSE {FALSE}

\* ResultBuffer._flush_to_disk on the buffer given: the rows are appended and the
\* buffer is emptied, or to_csv raises, the except branch prints and the buffer
\* stays as it is.
WfFlushToDisk(buffer, fails) ==
    /\ wf_store' = IF fails THEN wf_store ELSE wf_store \cup WfElems(buffer)
    /\ wf_buffer' = IF fails THEN buffer ELSE <<>>
    /\ wf_failures' = IF fails THEN wf_failures + 1 ELSE wf_failures

\* ResultBuffer.add_result of a result with POI data: append, and
\* _flush_to_disk when the buffer has batch_size entries.
WfAddResult ==
    /\ wf_variant = "simple"
    /\ wf_pc = "collect"
    /\ wf_produced < WfPayloads
    /\ wf_produced' = wf_produced + 1
    /\ LET buffer == Append(wf_buffer, wf_produced + 1) IN
       IF Len(buffer) >= WfBatchSize
       THEN \E fails \in WfWriteOutcomes : WfFlushToDisk(buffer, fails)
       ELSE wf_buffer' = buffer /\ UNCHANGED <<wf_store, wf_failures>>
    /\ UNCHANGED <<wf_variant, wf_pc>>
    /\ UNCHANGED outsideWriteFail

\* ResultBuffer.auto_flush: flush_interval has passed and the buffer is not empty.
WfAutoFlush ==
    /\ wf_variant = "simple"
    /\ wf_pc = "collect"
    /\ wf_buffer # <<>>
    /\ \E fails \in WfWriteOutcomes : WfFlushToDisk(wf_buffer, fails)
    /\ UNCHANGED <<wf_variant, wf_produced, wf_pc>>
    /\ UNCHANGED outsideWriteFail

\* ResultBuffer.final_flush after the last result.
WfFinalFlush ==
    /\ wf_variant = "simple"
    /\ wf_pc = "collect"
    /\ wf_produced = WfPayloads
    /\ IF wf_buffer # <<>>
       THEN \E fails \in WfWriteOutcomes : WfFlushToDisk(wf_buffer, fails)
       ELSE UNCHANGED <<wf_buffer, wf_store, wf_failures>>
    /\ wf_pc' = "done"
    /\ UNCHANGED <<wf_variant, wf_produced>>
    /\ UNCHANGED outsideWriteFail

\* _batch_append_to_output_file(data_list): the rows are appended, or to_csv
\* raises and the except branch prints and records a warning; it returns
\* nothing in both cases.
WfBatchAppend(data_list, fails) ==
    /\ wf_store' = IF fails THEN wf_store ELSE wf_store \cup WfElems(data_list)
    /\ wf_failures' = IF fails THEN wf_failures + 1 ELSE wf_failures

\* collect_results: a result with data is appended to batch_data; with 20
\* entries, or 5 s after the last write, _batch_append_to_output_file is called
\* and batch_data is set to [].
WfHybridCollect ==
    /\ wf_variant = "hybrid"
    /\ wf_pc = "collect"
    /\ wf_produced < WfPayloads
    /\ wf_produced' = wf_produced + 1
    /\ LET batch_data == Append(wf_buffer, wf_produced + 1) IN
       \E timed_out \in BOOLEAN :
          IF Len(batch_data) >= WfBatchSize \/ timed_out
          THEN /\ \E fails \in WfWriteOutcomes : WfBatchAppend(batch_data, fails)
               /\ wf_buffer' = <<>>
          ELSE wf_buffer' = batch_data /\ UNCHANGED <<wf_store, wf_failures>>
    /\ UNCHANGED <<wf_variant, wf_pc>>
    /\ UNCHANGED outsideWriteFail

\* collect_results after the loop: "if batch_data:
\* self._batch_append_to_output_file(batch_data)".
WfHybridWriteRest ==
    /\ wf_variant = "hybrid"
    /\ wf_pc = "collect"
    /\ wf_produced = WfPayloads
    /\ IF wf_buffer # <<>>
       THEN \E fails \in WfWriteOutcomes : WfBatchAppend(wf_buffer, fails)
       ELSE UNCHANGED <<wf_store, wf_failures>>
    /\ wf_pc' = "done"
    /\ UNCHANGED <<wf_variant, wf_buffer, wf_produced>>
    /\ UNCHANGED outsideWriteFail

WriteFailNext ==
    \/ WfAddResult
    \/ WfAutoFlush
    \/ WfFinalFlush
    \/ WfHybridCollect
    \/ WfHybridWriteRest

\* ------------------------------------------------------------------------
\* The writers of the progress file of the simple crawler: the periodic
\* _save_progress of process_results and the _save_progress and
\* _cleanup_progress of _finalize_file_processing (poi_crawler_simple.py)
\* ------------------------------------------------------------------------
PwJobs == 8

PwSaveEvery == 2

PwAbsent == -1

PwTruncated == -2

ProgressWritersInit ==
    /\ pw_unfinished = PwJobs
    /\ pw_queue = 0
    /\ pw_cpc = "loop"
    /\ pw_mpc = "join"
    /\ pw_processed = 0
    /\ pw_file = PwAbsent

ProgressWritersIdle ==
    /\ pw_unfinished = 0
    /\ pw_queue = 0
    /\ pw_cpc = "idle"
    /\ pw_mpc = "idle"
    /\ pw_processed = 0
    /\ pw_file = PwAbsent

\* ChromeWorker.run: result_queue.put(result), then task_queue.task_done().
PwWorkerDone ==
    /\ pw_unfinished > 0
    /\ pw_unfinished' = pw_unfinished - 1
    /\ pw_queue' = pw_queue + 1
    /\ UNCHANGED <<pw_cpc, pw_mpc, pw_processed, pw_file>>
    /\ UNCHANGED outsideProgressWriters

\* process_results: result = self.result_queue.get(timeout=1.0)
PwCollectorGet ==
    /\ pw_cpc = "loop"
    /\ pw_queue > 0
    /\ pw_queue' = pw_queue - 1
    /\ pw_cpc' = "handle"
    /\ UNCHANGED <<pw_unfinished, pw_mpc, pw_processed, pw_file>>
    /\ UNCHANGED outsideProgressWriters

\* process_results: add_result, processed_tasks += 1, and when processed_tasks is
\* a multiple of 10, _save_progress up to open(self.progress_file, 'w').
PwCollectorHandle ==
    /\ pw_cpc = "handle"
    /\ pw_processed' = pw_processed + 1
    /\ IF (pw_processed + 1) % PwSaveEvery = 0
       THEN pw_cpc' = "saving" /\ pw_file' = PwTruncated
       ELSE pw_cpc' = "loop" /\ UNCHANGED pw_file
    /\ UNCHANGED <<pw_unfinished, pw_queue, pw_mpc>>
    /\ UNCHANGED outsideProgressWriters

\* _save_progress called by process_results: json.dump and the end of the with
\* block. When the file was unlinked meanwhile, the close leaves nothing.
PwCollectorSaveEnds ==
    /\ pw_cpc = "saving"
    /\ pw_file' = IF pw_file = PwAbsent THEN PwAbsent ELSE pw_processed
    /\ pw_cpc' = "loop"
    /\ UNCHANGED <<pw_unfinished, pw_queue, pw_mpc, pw_processed>>
    /\ UNCHANGED outsideProgressWriters

\* process_single_file: task_queue.join() returns.
PwMainJoin ==
    /\ pw_mpc = "join"
    /\ pw_unfinished = 0
    /\ pw_mpc' = "wait"
    /\ UNCHANGED <<pw_unfinished, pw_queue, pw_cpc, pw_processed, pw_file>>
    /\ UNCHANGED outsideProgressWriters

\* process_single_file: "while not self.result_queue.empty()" ends; final_flush.
PwMainWaitResults ==
    /\ pw_mpc = "wait"
    /\ pw_queue = 0
    /\ pw_mpc' = "final_save"
    /\ UNCHANGED <<pw_unfinished, pw_queue, pw_cpc, pw_processed, pw_file>>
    /\ UNCHANGED outsideProgressWriters

\* _finalize_file_processing: _save_progress up to open(self.progress_file, 'w').
PwMainSaveOpens ==
    /\ pw_mpc = "final_save"
    /\ pw_file' = PwTruncated
    /\ pw_mpc' = "final_saving"
    /\ UNCHANGED <<pw_unfinished, pw_queue, pw_cpc, pw_processed>>
    /\ UNCHANGED outsideProgressWriters

\* _finalize_file_processing: json.dump and the end of the with block of
\* _save_progress.
PwMainSaveEnds ==
    /\ pw_mpc = "final_saving"
    /\ pw_file' = pw_processed
    /\ pw_mpc' = "cleanup"
    /\ UNCHANGED <<pw_unfinished, pw_queue, pw_cpc, pw_processed>>
    /\ UNCHANGED outsideProgressWriters

\* _finalize_file_processing: _cleanup_progress (progress_file.unlink()).
PwMainCleanup ==
    /\ pw_mpc = "cleanup"
    /\ pw_file' = PwAbsent
    /\ pw_mpc' = "done"
    /\ UNCHANGED <<pw_unfinished, pw_queue, pw_cpc, pw_processed>>
    /\ UNCHANGED outsideProgressWriters

ProgressWritersNext ==
    \/ PwWorkerDone
    \/ PwCollectorGet
    \/ PwCollectorHandle
    \/ PwCollectorSaveEnds
    \/ PwMainJoin
    \/ PwMainWaitResults
    \/ PwMainSaveOpens
    \/ PwMainSaveEnds
    \/ PwMainCleanup

\* ------------------------------------------------------------------------
\* The output file over the runs of one batch: ResultBuffer.create_header and
\* _flush_to_disk (poi_crawler_simple.py), crawl_from_csv_async and
\* DataSaveWorker.save_worker_process (parallel_poi_crawler_turbo.py)
\* ------------------------------------------------------------------------
OfPayloads == 3

OfMaxRuns == 3

OfFiles == 1..OfMaxRuns

OfPayloadIds == 1..OfPayloads

OutputInit ==
    /\ of_variant \in {"simple", "turbo"}
    /\ of_pc = "init"
    /\ of_output = 0
    /\ of_exists = {}
    /\ of_rows = [f \in OfFiles |-> {}]
    /\ of_unreadable = {}
    /\ of_progress = FALSE
    /\ of_next = 1
    /\ of_runs = 1

OutputIdle ==
    /\ of_variant = "none"
    /\ of_pc = "idle"
    /\ of_output = 0
    /\ of_exists = {}
    /\ of_rows = <<>>
    /\ of_unreadable = {}
    /\ of_progress = FALSE
    /\ of_next = 1
    /\ of_runs = 0

\* ResultBuffer.__init__ / create_header on the output file the caller names (the
\* same one in every run): a new file gets the header; an existing file is read
\* with pd.read_csv and kept, and when the read raises the file is written anew
\* with the header only.
OfCreateHeader ==
    /\ of_variant = "simple"
    /\ of_pc = "init"
    /\ of_output' = 1
    /\ of_exists' = of_exists \cup {1}
    /\ IF 1 \in of_exists /\ 1 \in of_unreadable
       THEN /\ of_rows' = [of_rows EXCEPT ![1] = {}]
            /\ of_unreadable' = of_unreadable \ {1}
       ELSE UNCHANGED <<of_rows, of_unreadable>>
    /\ of_pc' = "run"
    /\ UNCHANGED <<of_variant, of_progress, of_next, of_runs>>
    /\ UNCHANGED outsideOutput

\* crawl_from_csv_async: with a progress file the run goes on with the output file
\* it names and writes no header (start_idx > 0); without one the output file is
\* a new one, named with the time of the start, and gets the header.
OfTurboSetup ==
    /\ of_variant = "turbo"
    /\ of_pc = "init"
    /\ IF of_progress
       THEN UNCHANGED <<of_output, of_exists, of_rows>>
       ELSE /\ of_output' = of_runs
            /\ of_exists' = of_exists \cup {of_runs}
            /\ of_rows' = [of_rows EXCEPT ![of_runs] = {}]
    /\ of_pc' = "run"
    /\ UNCHANGED <<of_variant, of_unreadable, of_progress, of_next, of_runs>>
    /\ UNCHANGED outsideOutput

\* _flush_to_disk / save_worker_process: to_csv(mode='a') appends the payload;
\* the progress file is saved now and then.
OfFlush ==
    /\ of_pc = "run"
    /\ of_next <= OfPayloads
    /\ of_rows' = [of_rows EXCEPT ![of_output] = @ \cup {of_next}]
    /\ of_next' = of_next + 1
    /\ \E saved \in BOOLEAN : of_progress' = (of_progress \/ saved)
    /\ UNCHANGED <<of_variant, of_pc, of_output, of_exists, of_unreadable, of_runs>>
    /\ UNCHANGED outsideOutput

\* The process is killed; when this happens during a to_csv(mode='a'), the last
\* row of the file is cut, inside a quoted field or not.
OfKilled ==
    /\ of_pc = "run"
    /\ of_pc' = "dead"
    /\ \E torn \in BOOLEAN :
          of_unreadable' = IF torn THEN of_unreadable \cup {of_output} ELSE of_unreadable
    /\ UNCHANGED <<of_variant, of_output, of_exists, of_rows, of_progress, of_next, of_runs>>
    /\ UNCHANGED outsideOutput

\* The program is started again on the same input.
OfRunAgain ==
    /\ of_pc = "dead"
    /\ of_runs < OfMaxRuns
    /\ of_runs' = of_runs + 1
    /\ of_pc' = "init"
    /\ UNCHANGED <<of_variant, of_output, of_exists, of_rows, of_unreadable, of_progress,
                   of_next>>
    /\ UNCHANGED outsideOutput

OutputNext ==
    \/ OfCreateHeader
    \/ OfTurboSetup
    \/ OfFlush
    \/ OfKilled
    \/ OfRunAgain

\* ------------------------------------------------------------------------
\* The output location of a run and of its progress file:
\* SimplePOICrawler._setup_file_processing, process_single_file, _save_progress
\* (poi_crawler_simple.py)
\* ------------------------------------------------------------------------
OlPayloads == 3

OlMaxRuns == 3

OlFileCount == 2

OlFiles == 1..OlFileCount      \* the paths --output can name

NoOutputFile == 0

OutLocInit ==
    /\ ol_pc = "setup"
    /\ ol_arg = NoOutputFile
    /\ ol_stored = NoOutputFile
    /\ ol_current = NoOutputFile
    /\ ol_sink = NoOutputFile
    /\ ol_rows = [f \in OlFiles |-> {}]
    /\ ol_next = 1
    /\ ol_runs = 1

OutLocIdle ==
    /\ ol_pc = "idle"
    /\ ol_arg = NoOutputFile
    /\ ol_stored = NoOutputFile
    /\ ol_current = NoOutputFile
    /\ ol_sink = NoOutputFile
    /\ ol_rows = <<>>
    /\ ol_next = 1
    /\ ol_runs = 0

\* _setup_file_processing: the output file the run records in its progress file,
\* the one of the loaded progress file when there is one, else the argument.
CurrentOutputFile(stored, output_file) ==
    IF stored # NoOutputFile THEN stored ELSE output_file

\* process_single_file: the file the ResultBuffer is made for,
\* ResultBuffer(output_file, ...).
BufferOutputFile(current, output_file) == output_file

\* process_single_file called with output_file: _setup_file_processing loads the
\* progress file and sets current_output_file; with no address left it removes the
\* progress file and the call returns.
OlSetup(output_file) ==
    /\ ol_pc = "setup"
    /\ ol_arg' = output_file
    /\ ol_current' = CurrentOutputFile(ol_stored, output_file)
    /\ IF ol_stored # NoOutputFile /\ ol_next > OlPayloads
       THEN /\ ol_stored' = NoOutputFile
            /\ ol_pc' = "done"
       ELSE /\ ol_pc' = "buffer"
            /\ UNCHANGED ol_stored
    /\ UNCHANGED <<ol_sink, ol_rows, ol_next, ol_runs>>
    /\ UNCHANGED outsideOutLoc

\* process_single_file: self.result_buffer = ResultBuffer(output_file, ...)
OlNewBuffer ==
    /\ ol_pc = "buffer"
    /\ ol_sink' = BufferOutputFile(ol_current, ol_arg)
    /\ ol_pc' = "run"
    /\ UNCHANGED <<ol_arg, ol_stored, ol_current, ol_rows, ol_next, ol_runs>>
    /\ UNCHANGED outsideOutLoc

\* ResultBuffer._flush_to_disk: the payload is appended to self.output_file.
OlFlush ==
    /\ ol_pc = "run"
    /\ ol_next <= OlPayloads
    /\ ol_rows' = [ol_rows EXCEPT ![ol_sink] = @ \cup {ol_next}]
    /\ ol_next' = ol_next + 1
    /\ UNCHANGED <<ol_pc, ol_arg, ol_stored, ol_current, ol_sink, ol_runs>>
    /\ UNCHANGED outsideOutLoc

\* _save_progress: 'output_file': str(self.current_output_file)
OlSaveProgress ==
    /\ ol_pc = "run"
    /\ ol_stored' = ol_current
    /\ UNCHANGED <<ol_pc, ol_arg, ol_current, ol_sink, ol_rows, ol_next, ol_runs>>
    /\ UNCHANGED outsideOutLoc

\* _finalize_file_processing after the last payload: _save_progress, then
\* _cleanup_progress removes the progress file.
OlFinalize ==
    /\ ol_pc = "run"
    /\ ol_next > OlPayloads
    /\ ol_stored' = NoOutputFile
    /\ ol_pc' = "done"
    /\ UNCHANGED <<ol_arg, ol_current, ol_sink, ol_rows, ol_next, ol_runs>>
    /\ UNCHANGED outsideOutLoc

\* The process is killed during the run.
OlKilled ==
    /\ ol_pc = "run"
    /\ ol_pc' = "dead"
    /\ UNCHANGED <<ol_arg, ol_stored, ol_current, ol_sink, ol_rows, ol_next, ol_runs>>
    /\ UNCHANGED outsideOutLoc

\* The program is started again on the same input: the memory of the run is
\* lost, the progress file and the output files stay.
OlRunAgain ==
    /\ ol_pc = "dead"
    /\ ol_runs < OlMaxRuns
    /\ ol_runs' = ol_runs + 1
    /\ ol_pc' = "setup"
    /\ ol_arg' = NoOutputFile
    /\ ol_current' = NoOutputFile
    /\ ol_sink' = NoOutputFile
    /\ UNCHANGED <<ol_stored, ol_rows, ol_next>>
    /\ UNCHANGED outsideOutLoc

OutLocNext ==
    \/ \E output_file \in OlFiles : OlSetup(output_file)
    \/ OlNewBuffer
    \/ OlFlush
    \/ OlSaveProgress
    \/ OlFinalize
    \/ OlKilled
    \/ OlRunAgain

\* ------------------------------------------------------------------------
\* The driver of a worker over its periodic restarts: ChromeWorker.run
\* (poi_crawler_simple.py)
\* ------------------------------------------------------------------------
WrWorkers == 2

WrMaxTasks == 4

RestartEvery == 2        \* processed_count % 1000 == 0, scaled down

NoDriver == 0

WrWorkerIds == 1..WrWorkers

WorkerRestartInit ==
    /\ wr_pc = [w \in WrWorkerIds |-> "start"]
    /\ wr_driver = [w \in WrWorkerIds |-> NoDriver]
    /\ wr_processed_count = [w \in WrWorkerIds |-> 0]
    /\ wr_quit = {}
    /\ wr_made = 0

WorkerRestartIdle ==
    /\ wr_pc = <<>>
    /\ wr_driver = <<>>
    /\ wr_processed_count = <<>>
    /\ wr_quit = {}
    /\ wr_made = 0

\* ChromeWorker.run: self.driver = self.create_driver(); when it raises the
\* thread returns.
WrStart(w) ==
    /\ wr_pc[w] = "start"
    /\ \E created \in BOOLEAN :
          IF created
          THEN /\ wr_made' = wr_made + 1
               /\ wr_driver' = [wr_driver EXCEPT ![w] = wr_made + 1]
               /\ wr_pc' = [wr_pc EXCEPT ![w] = "loop"]
          ELSE /\ wr_pc' = [wr_pc EXCEPT ![w] = "exited"]
               /\ UNCHANGED <<wr_driver, wr_made>>
    /\ UNCHANGED <<wr_processed_count, wr_quit>>
    /\ UNCHANGED outsideWorkerRestart

\* ChromeWorker.run, the restart branch: the loop is left ('break') only when
\* self.driver is falsy after the failed restart.
LeavesLoop(driver) == driver = NoDriver

\* ChromeWorker.run, one pass of the loop with a task: process_task on
\* self.driver, processed_count += 1, and at every RestartEvery-th task
\* self.driver.quit() followed by self.driver = self.create_driver(); when the
\* creation raises, self.driver still refers to the driver that was quit.
WrTask(w) ==
    LET count == wr_processed_count[w] + 1 IN
    /\ wr_pc[w] = "loop"
    /\ wr_processed_count[w] < WrMaxTasks
    /\ wr_processed_count' = [wr_processed_count EXCEPT ![w] = count]
    /\ IF count % RestartEvery = 0
       THEN /\ wr_quit' = wr_quit \cup {wr_driver[w]}
            /\ \E created \in BOOLEAN :
                  IF created
                  THEN /\ wr_made' = wr_made + 1
                       /\ wr_driver' = [wr_driver EXCEPT ![w] = wr_made + 1]
                       /\ UNCHANGED wr_pc
                  ELSE /\ wr_pc' = [wr_pc EXCEPT ![w] =
                                        IF LeavesLoop(wr_driver[w]) THEN "exited" ELSE "loop"]
                       /\ UNCHANGED <<wr_driver, wr_made>>
       ELSE UNCHANGED <<wr_pc, wr_driver, wr_quit, wr_made>>
    /\ UNCHANGED outsideWorkerRestart

\* ChromeWorker.run: stop_event is set, the loop ends and the finally block
\* quits self.driver.
WrStop(w) ==
    /\ wr_pc[w] = "loop"
    /\ wr_pc' = [wr_pc EXCEPT ![w] = "exited"]
    /\ wr_quit' = wr_quit \cup {wr_driver[w]}
    /\ UNCHANGED <<wr_driver, wr_processed_count, wr_made>>
    /\ UNCHANGED outsideWorkerRestart

WorkerRestartNext ==
    \/ \E w \in WrWorkerIds : WrStart(w)
    \/ \E w \in WrWorkerIds : WrTask(w)
    \/ \E w \in WrWorkerIds : WrStop(w)

\* ------------------------------------------------------------------------
\* Specifications: one per component; the other components stay as constructed.
\* ------------------------------------------------------------------------
SimpleIdle ==
    /\ batch = <<>>
    /\ collab = "any"
    /\ SimpleInitCommon(0)

ResumeIdle ==
    /\ rs_variant = "simple"
    /\ ResumeInitCommon

SinkIdle ==
    /\ sk_variant = "simple"
    /\ SinkInitCommon

AdmIdle ==
    /\ is_paused = FALSE
    /\ feeding_event = TRUE
    /\ since_check = CheckInterval
    /\ metrics = [mem |-> 59, cpu |-> 69, load |-> 5]
    /\ jpc = <<>>
    /\ waited = <<>>
    /\ adm_pc = "batch"
    /\ last_op = "other"
    /\ was_paused = FALSE
    /\ paused_dispatch = FALSE
    /\ early_dispatch = FALSE

SimpleNext ==
    \/ \E w \in DOMAIN wpc : WorkerCreateDriver(w)
    \/ \E w \in DOMAIN wpc : WorkerCreateDriverFails(w)
    \/ \E w \in DOMAIN wpc : WorkerCheckRetry(w)
    \/ \E w \in DOMAIN wpc : WorkerGetMain(w)
    \/ \E w \in DOMAIN wpc : WorkerProcess(w)
    \/ CollectorGet
    \/ CollectorHandle
    \/ MainPut
    \/ MainJoin
    \/ MainWaitResults
    \/ MainFinalize
    \/ MainStopWorkers
    \/ Interrupt

Init == SimpleInit /\ PoolInit /\ ResumeIdle /\ SinkIdle /\ AdmIdle /\ RetryIdle /\ CkptIdle /\ InterruptWriteIdle /\ TurboIdle /\ SinkStopIdle /\ DiagIdle /\ FeederIdle /\ LadderIdle /\ WriteFailIdle /\ ProgressWritersIdle /\ OutputIdle /\ OutLocIdle /\ WorkerRestartIdle

Spec == Init /\ [][SimpleNext]_vars

\* The retry scenario runs without Ctrl+C and with every driver created.
ScenarioNext ==
    \/ \E w \in DOMAIN wpc : WorkerCreateDriver(w)
    \/ \E w \in DOMAIN wpc : WorkerCheckRetry(w)
    \/ \E w \in DOMAIN wpc : WorkerGetMain(w)
    \/ \E w \in DOMAIN wpc : WorkerProcess(w)
    \/ CollectorGet
    \/ CollectorHandle
    \/ MainPut
    \/ MainJoin
    \/ MainWaitResults
    \/ MainFinalize
    \/ MainStopWorkers

ScenarioSpecInit == ScenarioInit /\ PoolInit /\ ResumeIdle /\ SinkIdle /\ AdmIdle /\ RetryIdle /\ CkptIdle /\ InterruptWriteIdle /\ TurboIdle /\ SinkStopIdle /\ DiagIdle /\ FeederIdle /\ LadderIdle /\ WriteFailIdle /\ ProgressWritersIdle /\ OutputIdle /\ OutLocIdle /\ WorkerRestartIdle

ScenarioSpec == ScenarioSpecInit /\ [][ScenarioNext]_vars

PoolSpecInit == SimpleIdle /\ PoolInit /\ ResumeIdle /\ SinkIdle /\ AdmIdle /\ RetryIdle /\ CkptIdle /\ InterruptWriteIdle /\ TurboIdle /\ SinkStopIdle /\ DiagIdle /\ FeederIdle /\ LadderIdle /\ WriteFailIdle /\ ProgressWritersIdle /\ OutputIdle /\ OutLocIdle /\ WorkerRestartIdle

PoolSpec == PoolSpecInit /\ [][PoolNext]_vars

ReleaseSpec == PoolSpecInit /\ [][ReleaseNext]_vars

ResumeSpecInit == SimpleIdle /\ PoolInit /\ ResumeInit /\ SinkIdle /\ AdmIdle /\ RetryIdle /\ CkptIdle /\ InterruptWriteIdle /\ TurboIdle /\ SinkStopIdle /\ DiagIdle /\ FeederIdle /\ LadderIdle /\ WriteFailIdle /\ ProgressWritersIdle /\ OutputIdle /\ OutLocIdle /\ WorkerRestartIdle

ResumeSpec == ResumeSpecInit /\ [][ResumeNext]_vars

LifecycleSpecInit == SimpleIdle /\ PoolInit /\ LifecycleInit /\ SinkIdle /\ AdmIdle /\ RetryIdle /\ CkptIdle /\ InterruptWriteIdle /\ TurboIdle /\ SinkStopIdle /\ DiagIdle /\ FeederIdle /\ LadderIdle /\ WriteFailIdle /\ ProgressWritersIdle /\ OutputIdle /\ OutLocIdle /\ WorkerRestartIdle

LifecycleSpec == LifecycleSpecInit /\ [][LifecycleNext]_vars

SinkSpecInit == SimpleIdle /\ PoolInit /\ ResumeIdle /\ SinkInit /\ AdmIdle /\ RetryIdle /\ CkptIdle /\ InterruptWriteIdle /\ TurboIdle /\ SinkStopIdle /\ DiagIdle /\ FeederIdle /\ LadderIdle /\ WriteFailIdle /\ ProgressWritersIdle /\ OutputIdle /\ OutLocIdle /\ WorkerRestartIdle

SinkSpec == SinkSpecInit /\ [][SinkNext]_vars

AdmSpecInit == SimpleIdle /\ PoolInit /\ ResumeIdle /\ SinkIdle /\ AdmInit /\ RetryIdle /\ CkptIdle /\ InterruptWriteIdle /\ TurboIdle /\ SinkStopIdle /\ DiagIdle /\ FeederIdle /\ LadderIdle /\ WriteFailIdle /\ ProgressWritersIdle /\ OutputIdle /\ OutLocIdle /\ WorkerRestartIdle

AdmSpec == AdmSpecInit /\ [][AdmNext]_vars

RetrySpecInit == SimpleIdle /\ PoolInit /\ ResumeIdle /\ SinkIdle /\ AdmIdle /\ RetryInit /\ CkptIdle /\ InterruptWriteIdle /\ TurboIdle /\ SinkStopIdle /\ DiagIdle /\ FeederIdle /\ LadderIdle /\ WriteFailIdle /\ ProgressWritersIdle /\ OutputIdle /\ OutLocIdle /\ WorkerRestartIdle

RetrySpec == RetrySpecInit /\ [][RetryNext]_vars

CkptSpecInit == SimpleIdle /\ PoolInit /\ ResumeIdle /\ SinkIdle /\ AdmIdle /\ RetryIdle /\ CkptInit /\ InterruptWriteIdle /\ TurboIdle /\ SinkStopIdle /\ DiagIdle /\ FeederIdle /\ LadderIdle /\ WriteFailIdle /\ ProgressWritersIdle /\ OutputIdle /\ OutLocIdle /\ WorkerRestartIdle

CkptSpec == CkptSpecInit /\ [][CkptNext]_vars

InterruptWriteSpecInit == SimpleIdle /\ PoolInit /\ ResumeIdle /\ SinkIdle /\ AdmIdle /\ RetryIdle /\ CkptIdle /\ InterruptWriteInit /\ TurboIdle /\ SinkStopIdle /\ DiagIdle /\ FeederIdle /\ LadderIdle /\ WriteFailIdle /\ ProgressWritersIdle /\ OutputIdle /\ OutLocIdle /\ WorkerRestartIdle

InterruptWriteSpec == InterruptWriteSpecInit /\ [][InterruptWriteNext]_vars

TurboSpecInit == SimpleIdle /\ PoolInit /\ ResumeIdle /\ SinkIdle /\ AdmIdle /\ RetryIdle /\ CkptIdle /\ InterruptWriteIdle /\ TurboInit /\ SinkStopIdle /\ DiagIdle /\ FeederIdle /\ LadderIdle /\ WriteFailIdle /\ ProgressWritersIdle /\ OutputIdle /\ OutLocIdle /\ WorkerRestartIdle

TurboSpec == TurboSpecInit /\ [][TurboNext]_vars

SinkStopSpecInit == SimpleIdle /\ PoolInit /\ ResumeIdle /\ SinkIdle /\ AdmIdle /\ RetryIdle /\ CkptIdle /\ InterruptWriteIdle /\ TurboIdle /\ SinkStopInit /\ DiagIdle /\ FeederIdle /\ LadderIdle /\ WriteFailIdle /\ ProgressWritersIdle /\ OutputIdle /\ OutLocIdle /\ WorkerRestartIdle

SinkStopSpec == SinkStopSpecInit /\ [][SinkStopNext]_vars

DiagSpecInit == SimpleIdle /\ PoolInit /\ ResumeIdle /\ SinkIdle /\ AdmIdle /\ RetryIdle /\ CkptIdle /\ InterruptWriteIdle /\ TurboIdle /\ SinkStopIdle /\ DiagInit /\ FeederIdle /\ LadderIdle /\ WriteFailIdle /\ ProgressWritersIdle /\ OutputIdle /\ OutLocIdle /\ WorkerRestartIdle

DiagSpec == DiagSpecInit /\ [][DiagNext]_vars

FeederSpecInit == SimpleIdle /\ PoolInit /\ ResumeIdle /\ SinkIdle /\ AdmIdle /\ RetryIdle /\ CkptIdle /\ InterruptWriteIdle /\ TurboIdle /\ SinkStopIdle /\ DiagIdle /\ FeederInit /\ LadderIdle /\ WriteFailIdle /\ ProgressWritersIdle /\ OutputIdle /\ OutLocIdle /\ WorkerRestartIdle

FeederSpec == FeederSpecInit /\ [][FeederNext]_vars

LadderSpecInit == SimpleIdle /\ PoolInit /\ ResumeIdle /\ SinkIdle /\ AdmIdle /\ RetryIdle /\ CkptIdle /\ InterruptWriteIdle /\ TurboIdle /\ SinkStopIdle /\ DiagIdle /\ FeederIdle /\ LadderInit /\ WriteFailIdle /\ ProgressWritersIdle /\ OutputIdle /\ OutLocIdle /\ WorkerRestartIdle

LadderSpec == LadderSpecInit /\ [][LadderNext]_vars

WriteFailSpecInit == SimpleIdle /\ PoolInit /\ ResumeIdle /\ SinkIdle /\ AdmIdle /\ RetryIdle /\ CkptIdle /\ InterruptWriteIdle /\ TurboIdle /\ SinkStopIdle /\ DiagIdle /\ FeederIdle /\ LadderIdle /\ WriteFailInit /\ ProgressWritersIdle /\ OutputIdle /\ OutLocIdle /\ WorkerRestartIdle

WriteFailSpec == WriteFailSpecInit /\ [][WriteFailNext]_vars

ProgressWritersSpecInit == SimpleIdle /\ PoolInit /\ ResumeIdle /\ SinkIdle /\ AdmIdle /\ RetryIdle /\ CkptIdle /\ InterruptWriteIdle /\ TurboIdle /\ SinkStopIdle /\ DiagIdle /\ FeederIdle /\ LadderIdle /\ WriteFailIdle /\ ProgressWritersInit /\ OutputIdle /\ OutLocIdle /\ WorkerRestartIdle

ProgressWritersSpec == ProgressWritersSpecInit /\ [][ProgressWritersNext]_vars

OutputSpecInit == SimpleIdle /\ PoolInit /\ ResumeIdle /\ SinkIdle /\ AdmIdle /\ RetryIdle /\ CkptIdle /\ InterruptWriteIdle /\ TurboIdle /\ SinkStopIdle /\ DiagIdle /\ FeederIdle /\ LadderIdle /\ WriteFailIdle /\ ProgressWritersIdle /\ OutputInit /\ OutLocIdle /\ WorkerRestartIdle

OutputSpec == OutputSpecInit /\ [][OutputNext]_vars

OutLocSpecInit == SimpleIdle /\ PoolInit /\ ResumeIdle /\ SinkIdle /\ AdmIdle /\ RetryIdle /\ CkptIdle /\ InterruptWriteIdle /\ TurboIdle /\ SinkStopIdle /\ DiagIdle /\ FeederIdle /\ LadderIdle /\ WriteFailIdle /\ ProgressWritersIdle /\ OutputIdle /\ OutLocInit /\ WorkerRestartIdle

OutLocSpec == OutLocSpecInit /\ [][OutLocNext]_vars

WorkerRestartSpecInit == SimpleIdle /\ PoolInit /\ ResumeIdle /\ SinkIdle /\ AdmIdle /\ RetryIdle /\ CkptIdle /\ InterruptWriteIdle /\ TurboIdle /\ SinkStopIdle /\ DiagIdle /\ FeederIdle /\ LadderIdle /\ WriteFailIdle /\ ProgressWritersIdle /\ OutputIdle /\ OutLocIdle /\ WorkerRestartInit

WorkerRestartSpec == WorkerRestartSpecInit /\ [][WorkerRestartNext]_vars

\* The threads of a run in which every driver is created. Ctrl+C may come at any
\* time or never; every thread that can take its next step takes it in the end.
TermNext ==
    \/ \E w \in DOMAIN wpc : WorkerCreateDriver(w)
    \/ \E w \in DOMAIN wpc : WorkerCheckRetry(w)
    \/ \E w \in DOMAIN wpc : WorkerGetMain(w)
    \/ \E w \in DOMAIN wpc : WorkerProcess(w)
    \/ CollectorGet
    \/ CollectorHandle
    \/ MainPut
    \/ MainJoin
    \/ MainWaitResults
    \/ MainFinalize
    \/ MainStopWorkers
    \/ Interrupt

TermFairness ==
    /\ \A w \in 1..TermWorkers :
          /\ WF_vars(WorkerCreateDriver(w))
          /\ WF_vars(WorkerCheckRetry(w))
          /\ WF_vars(WorkerGetMain(w))
          /\ WF_vars(WorkerProcess(w))
    /\ WF_vars(CollectorGet)
    /\ WF_vars(CollectorHandle)
    /\ WF_vars(MainPut)
    /\ WF_vars(MainJoin)
    /\ WF_vars(MainWaitResults)
    /\ WF_vars(MainFinalize)
    /\ WF_vars(MainStopWorkers)

TermSpecInit == TermInit /\ PoolInit /\ ResumeIdle /\ SinkIdle /\ AdmIdle /\ RetryIdle /\ CkptIdle /\ InterruptWriteIdle /\ TurboIdle /\ SinkStopIdle /\ DiagIdle /\ FeederIdle /\ LadderIdle /\ WriteFailIdle /\ ProgressWritersIdle /\ OutputIdle /\ OutLocIdle /\ WorkerRestartIdle

TermSpec == TermSpecInit /\ [][TermNext]_vars /\ TermFairness

\* The threads of a run without Ctrl+C in which the creation of a driver may fail
\* in any worker; every thread that can take its next step takes it in the end.
StartupNext ==
    \/ \E w \in DOMAIN wpc : WorkerCreateDriver(w)
    \/ \E w \in DOMAIN wpc : WorkerCreateDriverFails(w)
    \/ \E w \in DOMAIN wpc : WorkerCheckRetry(w)
    \/ \E w \in DOMAIN wpc : WorkerGetMain(w)
    \/ \E w \in DOMAIN wpc : WorkerProcess(w)
    \/ CollectorGet
    \/ CollectorHandle
    \/ MainPut
    \/ MainJoin
    \/ MainWaitResults
    \/ MainFinalize
    \/ MainStopWorkers

StartupFairness ==
    /\ \A w \in 1..NumWorkers :
          /\ WF_vars(WorkerCreateDriver(w) \/ WorkerCreateDriverFails(w))
          /\ WF_vars(WorkerCheckRetry(w))
          /\ WF_vars(WorkerGetMain(w))
          /\ WF_vars(WorkerProcess(w))
    /\ WF_vars(CollectorGet)
    /\ WF_vars(CollectorHandle)
    /\ WF_vars(MainPut)
    /\ WF_vars(MainJoin)
    /\ WF_vars(MainWaitResults)
    /\ WF_vars(MainFinalize)
    /\ WF_vars(MainStopWorkers)

StartupSpec == Init /\ [][StartupNext]_vars /\ StartupFairness

\* ------------------------------------------------------------------------
\* Claims on the queue pipeline of poi_crawler_simple.py
\* ------------------------------------------------------------------------
\* Every thread of the run has ended: the main thread returned from crawl_from_csv,
\* every worker left its loop and process_results left its loop.
RunEnded ==
    /\ mpc = "done"
    /\ cpc = "exited"
    /\ \A w \in DOMAIN wpc : wpc[w] = "exited"

\* C1: every job of the batch yields exactly one terminal outcome: never two, and
\* when a run that was not interrupted has ended, no job is left without one.
C1_ExactlyOneOutcome ==
    /\ \A i \in DOMAIN batch : terminal[i] <= 1
    /\ (RunEnded /\ ~interrupt_flag) => \A i \in DOMAIN batch : terminal[i] = 1

\* C5: a worker never takes a task from the main queue while a retry task is
\* waiting in the retry queue.
C5_RetryBeforeNormal == ~bypass

\* C6: the number of crawls made for a job never exceeds the length of its
\* input ladder (a job with n inputs is retried at most n-1 times).
C6_AttemptsWithinLadder ==
    \A i \in DOMAIN batch : attempts[i] <= LadderLen(batch[i])

\* C6 witness: a job with two inputs has been crawled with both of them and its
\* second result has been consumed.
C6_Witness ==
    \E i \in DOMAIN batch :
        /\ LadderLen(batch[i]) = 2
        /\ attempts[i] = 2
        /\ terminal[i] = 1

\* C10: in the retry scenario the run ends with one successful outcome per job,
\* each obtained with the job's secondary (Japanese) address, and the retry queue
\* went from empty to non-empty exactly once.
C10_ScenarioOutcome ==
    RunEnded =>
        /\ \A i \in DOMAIN batch :
               terminal[i] = 1 /\ used[i] = batch[i].original_address
        /\ retry_seen = 1

OffsetUnit(i) == IF rs_variant = "simple" THEN i ELSE i \div ResumeBatchSize

\* C2: a run that starts from a checkpoint with offset k dispatches only jobs
\* beyond k, and by its end exactly those.
C2_ResumeDispatchesBeyondOffset ==
    rs_loaded.exists =>
        /\ \A i \in rs_dispatched : OffsetUnit(i) > rs_loaded.offset
        /\ rs_pc = "done" =>
               rs_dispatched = {i \in ResumeIndices : OffsetUnit(i) > rs_loaded.offset}

\* ------------------------------------------------------------------------
\* Claims on the result sinks
\* ------------------------------------------------------------------------
\* C3: the output file never holds two rows with the same (name, lat, lng).
C3_NoDuplicateRows ==
    \A j, k \in 1..Len(output_rows) : j # k => output_rows[j] # output_rows[k]

\* ------------------------------------------------------------------------
\* Claims on the resource scheduler
\* ------------------------------------------------------------------------
\* The metrics above their high-water marks.
Overloaded(m) ==
    {x \in {"mem", "cpu", "load"} :
        \/ x = "mem" /\ m.mem > memory_high_threshold
        \/ x = "cpu" /\ m.cpu > cpu_high_threshold
        \/ x = "load" /\ m.load > load_high_threshold}

AllBelowLowWater(m) ==
    /\ m.mem < memory_low_threshold
    /\ m.cpu < cpu_low_threshold
    /\ m.load < load_low_threshold

\* C7: a sampled check made while Running leaves the scheduler Paused exactly when
\* at least two metrics are above their high-water marks or memory is above the
\* hard ceiling.
C7_PauseExactlyOnOverload ==
    (last_op = "sampled" /\ ~was_paused) =>
        (is_paused <=> (Cardinality(Overloaded(metrics)) >= 2
                           \/ metrics.mem > memory_ceiling))

\* C7 witness: a sampled check has paused the scheduler on two overloaded metrics
\* with memory at or below the ceiling.
C7_Witness ==
    /\ last_op = "sampled"
    /\ ~was_paused
    /\ is_paused
    /\ metrics.mem <= memory_ceiling

C9_NoDispatchWhilePaused == ~paused_dispatch

\* C9 amended: a job that finds the scheduler Paused is handed to the executor
\* while it is still Paused only after it has waited the whole timeout of
\* wait_for_scheduling.
C9_PausedDispatchOnlyAfterTimeout == ~early_dispatch

\* C9 witness: a job that waited the whole timeout runs while the scheduler is
\* still Paused.
C9_Witness ==
    /\ paused_dispatch
    /\ is_paused
    /\ \E j \in AdmJobIds : jpc[j] = "running" /\ waited[j] = WaitTicks

\* ------------------------------------------------------------------------
\* Claims on the retry decision
\* ------------------------------------------------------------------------
\* A result of a page that is not a building and lists no POI.
IsNotBuildingResult(r) ==
    /\ r.success
    /\ r.result_type \in {"not_building", "no_poi_data"}
    /\ ~r.is_building
    /\ r.poi_count = 0

\* C11: a first result is crawled again with the original (secondary) address
\* exactly when it is a not-a-building result with zero POIs, its original address
\* exists and differs from the address crawled, and it is not the result of a retry.
C11_RetryExactlyOnNotBuilding ==
    rd_variant # "none" =>
        (rd_decision <=>
            /\ IsNotBuildingResult(rd_result)
            /\ rd_result.original_address # None
            /\ rd_result.original_address # rd_result.address
            /\ ~rd_result.is_retry)

\* ------------------------------------------------------------------------
\* Claims on the progress file
\* ------------------------------------------------------------------------
\* C12: after a crash inside a checkpoint save the progress file holds either the
\* complete record it held before the save or the complete new record, never a
\* truncated or partly written one.
C12_CheckpointOldOrNew ==
    ck_crashed => ck_file \in {ck_old, CompleteRecord(ck_new)}

\* ------------------------------------------------------------------------
\* Claims on the end of a run of the simple crawler
\* ------------------------------------------------------------------------
\* C13: the progress file is removed only after every job of the batch, every
\* retry job included, has produced its outcome and process_results has consumed
\* it; it is never removed while a retry job is queued or in flight.
C13_CleanupAfterAllOutcomes == cleanup \in {"none", "after_all"}

\* C14: every run terminates: the main thread reaches the end of crawl_from_csv,
\* in a normal run once all jobs have their outcomes, in an interrupted run after
\* the stop signal, without blocking for ever on a queue join.
C14_RunTerminates == <>(mpc = "done")

\* ------------------------------------------------------------------------
\* Claims on the writes of an interrupted run
\* ------------------------------------------------------------------------
\* C15: once the interrupt flag is set, nothing is written to the progress file
\* or to the output file any more: no periodic or final save, no buffer flush, no
\* final flush.
C15_NoWriteAfterInterrupt == iw_late = "none"

\* ------------------------------------------------------------------------
\* Claims on the driver pool under broken drivers
\* ------------------------------------------------------------------------
\* The drivers of the free list that this step destroys: get_driver's probe of
\* driver.window_handles failed and the driver was quit.
ProbeDestroyed ==
    {d \in HandleIds : /\ \E k \in 1..Len(pool) : pool[k] = d
                       /\ d \in live
                       /\ d \notin live'}

\* C17: a driver that get_driver takes from the free list and destroys because
\* its probe fails is no longer in the free list and no longer counts against the
\* creation cap: total_created goes down by one for each such driver (and up by
\* one when the same call creates a driver), so a following get_driver can create
\* a replacement.
C17_ProbeFailureFreesCap ==
    [][ProbeDestroyed # {} =>
          /\ \A d \in ProbeDestroyed : \A k \in 1..Len(pool') : pool'[k] # d
          /\ total_created' = total_created - Cardinality(ProbeDestroyed)
                                + (handles_made' - handles_made)]_vars

\* ------------------------------------------------------------------------
\* Claims on the turbo workers and their drivers
\* ------------------------------------------------------------------------
\* C16: no driver is used for more tasks than driver_max_tasks: every task
\* crawled with a driver counts, and the driver is retired before a task beyond
\* the ceiling runs on it, also when the worker keeps it from task to task.
C16_JobsWithinLifetime == \A d \in HandleIds : driver_jobs[d] <= DriverMaxTasks

\* C18: a driver that had a driver/transport error during a task has been retired
\* through the pool (release_driver): it is not in the free list, no worker holds
\* it for another task, and it is no longer alive.
C18_ErroredDriverRetired ==
    \A d \in tw_errored :
        /\ d \in released
        /\ d \notin live
        /\ \A k \in 1..Len(pool) : pool[k] # d
        /\ \A w \in PoolWorkerIds : current_driver[w] # d

C20_NoFailureForBusyPool == \A j \in TwIndices : "pool_exhausted" \notin tw_outcome[j]

\* ------------------------------------------------------------------------
\* C21: in every reachable state a live driver is in the pool's deque or held
\* by exactly one worker, never both and never by two workers; a driver is in
\* the deque at most once.
\* ------------------------------------------------------------------------
InPool(d) == \E k \in 1..Len(pool) : pool[k] = d

Holders(d) == {w \in PoolWorkerIds : current_driver[w] = d}

C21_HandleExclusive ==
    /\ \A d \in live :
          \/ InPool(d) /\ Holders(d) = {}
          \/ ~InPool(d) /\ Cardinality(Holders(d)) = 1
    /\ \A d \in HandleIds : Cardinality(Holders(d)) <= 1
    /\ \A d \in HandleIds : ~(InPool(d) /\ Holders(d) # {})
    /\ \A j, k \in 1..Len(pool) : j # k => pool[j] # pool[k]

\* A live driver waits in the pool while another live driver, which has run a
\* task, is held by a worker.
C21_Witness ==
    \E d, e \in live :
        /\ d # e
        /\ InPool(d)
        /\ Holders(e) # {}
        /\ driver_usage_count[e] # None

\* ------------------------------------------------------------------------
\* C22: a batch the save queue refuses stays in batch_data and is submitted
\* again later: within a run of the turbo crawler batch_data is emptied only by
\* a step that puts the whole batch on the save queue, the last batch of the
\* run included.
\* ------------------------------------------------------------------------
C22_RefusedBatchKept ==
    [][(/\ sk_variant = "turbo"
        /\ sk_runs' = sk_runs
        /\ sk_buffer # <<>>
        /\ sk_buffer' = <<>>)
          => save_queue' = Append(save_queue, sk_buffer)]_vars

\* ------------------------------------------------------------------------
\* C23: on stop the sink flushes before it closes: when save_worker_process has
\* exited, every batch that save_batch_async had put on the save queue is in
\* the output file.
\* ------------------------------------------------------------------------
C23_FlushBeforeClose == st_wpc = "exited" => st_accepted \subseteq st_written

\* ------------------------------------------------------------------------
\* C24: a full window whose results are all failures, or in which the failures
\* on addresses of the chome format make up at least 80% of the window, gets a
\* diagnostic report.
\* ------------------------------------------------------------------------
AllFailed(window) == \A k \in 1..Len(window) : ~window[k].success

PatternFails(window) ==
    10 * CountOf(window, LAMBDA r : ~r.success /\ r.chome) >= 8 * Len(window)

C24_ReportOnFailedWindow ==
    (dg_pc = "closed" /\ (AllFailed(dg_window) \/ PatternFails(dg_window)))
        => dg_reported

\* ------------------------------------------------------------------------
\* C25: when no worker can create its driver at startup, the batch is aborted:
\* no worker takes a job, no job is recorded as processed, and the run comes to
\* its end.
\* ------------------------------------------------------------------------
NoDriverAtAll == \A w \in DOMAIN wpc : wpc[w] = "failed"

C25_StartupFailureAborts ==
    /\ [](NoDriverAtAll =>
             /\ \A w \in DOMAIN wpc : wtask[w] = NoTask
             /\ processed_indices = {}
             /\ processed_tasks = 0)
    /\ (NoDriverAtAll ~> (mpc = "done"))

C27_ProgressDeletedOnSuccess ==
    /\ rs_pc = "done" => ~progress_file.exists
    /\ (rs_after_success /\ rs_pc # "setup") => ~rs_loaded.exists

\* ------------------------------------------------------------------------
\* C28: the feeder conserves jobs. Whatever the interleaving with the workers,
\* every job of the backlog is at any time in exactly one place: still in the
\* backlog, in the bounded queue, in the hands of one worker, or answered by
\* one result; it is never lost on a full queue and never duplicated.
\* ------------------------------------------------------------------------
FeedInSeq(seq, j) == Cardinality({i \in DOMAIN seq : seq[i] = j})

FeedPlaces(j) ==
    FeedInSeq(fd_pending, j) + FeedInSeq(fd_queue, j) + FeedInSeq(fd_wtask, j)
        + fd_results[j]

C28_FeederConservesJobs ==
    fd_fpc # "idle" => \A j \in FeedJobIds : FeedPlaces(j) = 1

\* ------------------------------------------------------------------------
\* C29: a job whose first answer asks for a retry gets a failure outcome only
\* when every input of its ladder has been attempted.
\* ------------------------------------------------------------------------
C29_FailureOnlyWhenExhausted ==
    (ld_retryable /\ ld_outcome = "failure") => Len(ld_attempted) = Len(ld_ladder)

\* ------------------------------------------------------------------------
\* C30: the inputs attempted for a job are a prefix of its ladder: they are
\* attempted in the declared order, none is skipped and none is attempted twice.
\* ------------------------------------------------------------------------
C30_AttemptedPrefixOfLadder ==
    ld_variant # "none" =>
        /\ Len(ld_attempted) >= 1
        /\ Len(ld_attempted) <= Len(ld_ladder)
        /\ ld_attempted = SubSeq(ld_ladder, 1, Len(ld_attempted))

\* C30 witness: the turbo crawler has asked for the three inputs of a job whose
\* secondary and fallback addresses differ.
C30_Witness ==
    /\ ld_variant = "turbo"
    /\ Len(ld_ladder) = 3
    /\ Len(ld_attempted) = 3
    /\ ld_ladder[2] # ld_ladder[3]

\* ------------------------------------------------------------------------
\* C31: a driver whose use count reaches the lifetime ceiling is destroyed and
\* replaced. The pool can supply as many live drivers as max_drivers when the
\* live ones and the ones it may still create add up to max_drivers; a
\* retirement that starts from such a state ends in such a state, also when
\* total_created had reached max_drivers.
\* ------------------------------------------------------------------------
CanSupplyPoolSize(live_set, created) ==
    Cardinality(live_set) + (MaxDrivers - created) >= MaxDrivers

\* restart_driver retires d: its use count is removed and the driver is quit.
Retired(d) ==
    /\ driver_usage_count[d] # None
    /\ driver_usage_count'[d] = None
    /\ d \in live
    /\ d \notin live'

C31_RetirementKeepsCapacity ==
    [][((\E d \in HandleIds : Retired(d)) /\ CanSupplyPoolSize(live, total_created))
          => CanSupplyPoolSize(live', total_created')]_vars

\* ------------------------------------------------------------------------
\* C32: no payload is lost to a failed write. While the run collects results,
\* every payload produced so far is in the output file or still buffered, so
\* that the next successful write stores it.
\* ------------------------------------------------------------------------
C32_FailedWriteKeepsPayloads ==
    wf_pc = "collect" => 1..wf_produced \subseteq (wf_store \cup WfElems(wf_buffer))

\* ------------------------------------------------------------------------
\* C33: the progress file has one writer at a time. While process_results
\* has the file open for its periodic save, the main thread is not in its final
\* save, and has neither made it nor removed the file.
\* ------------------------------------------------------------------------
C33_OneProgressWriter ==
    ~(pw_cpc = "saving" /\ pw_mpc \in {"final_saving", "cleanup", "done"})

\* ------------------------------------------------------------------------
\* C34: the records flushed to an output file stay in it: no step of the sink,
\* be it a flush or the set-up of the sink on an existing output file at the
\* start of a later run, removes the file or one of its records.
\* ------------------------------------------------------------------------
C34_FlushedRecordsStay ==
    [][\A f \in of_exists : f \in of_exists' /\ of_rows[f] \subseteq of_rows'[f]]_vars

\* ------------------------------------------------------------------------
\* C35: the admission controller does not flap. No two transitions between
\* Running and Paused follow each other with no clock tick between them, that
\* is within one check_interval, while cpu and load stay at or below their
\* high-water marks and only memory is across its marks.
\* ------------------------------------------------------------------------
OthersBelowHighWater(resources) ==
    /\ resources.cpu <= cpu_high_threshold
    /\ resources.load <= load_high_threshold

C35_NoFlapWithinInterval ==
    [][~(/\ was_paused # is_paused
         /\ is_paused' # is_paused
         /\ OthersBelowHighWater(metrics)
         /\ OthersBelowHighWater(metrics'))]_vars

\* ------------------------------------------------------------------------
\* C36: the offset of a checkpoint covers only finished jobs. While the workers
\* of the simple crawler run, no job at or below the offset recorded in the
\* progress file is still queued or in flight.
\* ------------------------------------------------------------------------
C36_OffsetCoversFinishedJobs ==
    (rs_variant = "simple" /\ rs_pc = "run" /\ progress_file.exists)
        => \A i \in rs_pending : i > progress_file.offset

\* ------------------------------------------------------------------------
\* C37: when the main thread finalizes the file (final_flush, then the progress
\* file is removed), every payload of the file has been handed to the result
\* buffer: no result waits on result_queue or is held by process_results, and
\* no task, first attempt or retry, is queued or being crawled.
\* ------------------------------------------------------------------------
AllPayloadsHanded ==
    /\ result_queue = <<>>
    /\ cres = NoTask
    /\ task_queue = <<>>
    /\ retry_queue = <<>>
    /\ \A w \in DOMAIN wtask : wtask[w] = NoTask

C37_FinalizeAfterAllHanded ==
    [][(mpc = "finalize" /\ mpc' = "stop_workers" /\ ~interrupt_flag)
          => AllPayloadsHanded]_vars

\* ------------------------------------------------------------------------
\* C38: a resumed run appends to the output location of its checkpoint. While a
\* run of the simple crawler writes, the file of its result buffer is the file
\* its next _save_progress records as output location.
\* ------------------------------------------------------------------------
C38_SinkWritesRecordedLocation ==
    ol_pc = "run" => ol_sink = ol_current

\* ------------------------------------------------------------------------
\* C39: a worker never runs a job on a destroyed driver. Every step in which a
\* worker of the simple crawler processes a task starts with a driver whose
\* quit() has not been called.
\* ------------------------------------------------------------------------
C39_NoJobOnDestroyedDriver ==
    [][\A w \in WrWorkerIds :
          wr_processed_count'[w] # wr_processed_count[w] => wr_driver[w] \notin wr_quit]_vars

\* ------------------------------------------------------------------------
\* C40: the dispatch gate follows the pause flag. In every state of the
\* scheduler, after sampled checks, force_pause and force_resume in any order,
\* feeding_event is clear exactly when is_paused is true.
\* ------------------------------------------------------------------------
C40_GateClosedIffPaused == (~feeding_event) <=> is_paused

\* force_resume has reopened the gate of a paused scheduler.
C40_Witness ==
    /\ last_op = "force_resume"
    /\ was_paused
    /\ ~is_paused
    /\ feeding_event

====
